---------------------------- MODULE Spec2Model ----------------------------
(***************************************************************************)
(* Battleship: the board model, the fleet validator, the move resolver,    *)
(* the bot's targeting AI and the turn controller of main.py, gameplay.py  *)
(* and utils.py.                                                           *)
(*                                                                         *)
(* The board and the fleet configuration are scaled down so that the state *)
(* space is finite and small: BOARD_SIZE is a bound of the model (10 in    *)
(* utils.py) and SHIP_SIZES is the configuration <<3, 1, 1>> (utils.py     *)
(* has [4,3,3,2,2,2,1,1,1,1]).  Every operator below is written against    *)
(* BOARD_SIZE and SHIP_SIZES and never against their values.               *)
(***************************************************************************)
EXTENDS Integers, Sequences, FiniteSets, TLC

VARIABLES
    player_ships,            \* GameState.player_ships
    bot_ships,               \* GameState.bot_ships
    player_board,            \* GameState.player_board: the bot's attacks
    bot_board,               \* GameState.bot_board: the player's attacks
    player_board_ships,      \* GameState.player_board_ships
    bot_board_ships,         \* GameState.bot_board_ships
    bot_mode,                \* GameState.bot_mode
    bot_hit_chain,           \* GameState.bot_hit_chain
    bot_last_hit,            \* GameState.bot_last_hit
    bot_orientation,         \* GameState.bot_orientation
    current_turn,            \* GameState.current_turn
    player_gets_extra_shot,  \* GameState.player_gets_extra_shot
    bot_gets_extra_shot,     \* GameState.bot_gets_extra_shot
    turn_number,             \* GameState.turn_number
    pc,                      \* where main() is: "loop", or the return it took
    last_attacker,           \* the side whose attack was resolved last
    last_coord,              \* the coordinate of the last resolved call
    last_result,             \* the result string the last call returned
    calls,                   \* number of direct apply_move calls (resolver runs)
    candidate,               \* the fleet handed to validate_ship_fleet
    verdict                  \* what validate_ship_fleet returned for it

vars == <<player_ships, bot_ships, player_board, bot_board,
          player_board_ships, bot_board_ships, bot_mode, bot_hit_chain,
          bot_last_hit, bot_orientation, current_turn,
          player_gets_extra_shot, bot_gets_extra_shot, turn_number, pc,
          last_attacker, last_coord, last_result, calls, candidate, verdict>>

---------------------------------------------------------------------------
(* utils.py: constants and board helpers *)

BOARD_SIZE == 4

SHIP_SIZES == <<3, 1, 1>>

RANDOM == "random"
HUNT == "hunt"
LOCKED == "locked"

\* Python's None for an optional coordinate and for the orientation
NoCoord == <<>>
NoOrientation == "none"

Range(s) == {s[i] : i \in DOMAIN s}

Abs(x) == IF x < 0 THEN 0 - x ELSE x

\* every (row, col) of the board, the index set of a board matrix
Cells == (0 .. BOARD_SIZE - 1) \X (0 .. BOARD_SIZE - 1)

in_bounds(coord) ==
    /\ 0 <= coord[1] /\ coord[1] < BOARD_SIZE
    /\ 0 <= coord[2] /\ coord[2] < BOARD_SIZE

Directions8 ==
    <<   <<-1, 0>>, <<1, 0>>, <<0, -1>>, <<0, 1>>,
         <<-1, -1>>, <<-1, 1>>, <<1, -1>>, <<1, 1>>   >>

\* the in-bounds cells among the 8 neighbours (the callers only test membership)
get_adjacent_and_diagonal_cells(coord) ==
    { <<coord[1] + Directions8[i][1], coord[2] + Directions8[i][2]>> :
          i \in { j \in DOMAIN Directions8 :
                    in_bounds(<<coord[1] + Directions8[j][1],
                                coord[2] + Directions8[j][2]>>) } }

\* Python's tuple order on coordinates, and sorted() on a list of them
CoordLess(a, b) == a[1] < b[1] \/ (a[1] = b[1] /\ a[2] < b[2])

RECURSIVE InsertSorted(_, _)
InsertSorted(x, s) ==
    IF s = <<>> THEN <<x>>
    ELSE IF CoordLess(s[1], x) \/ s[1] = x
         THEN <<s[1]>> \o InsertSorted(x, Tail(s))
         ELSE <<x>> \o s

RECURSIVE sorted(_)
sorted(s) == IF s = <<>> THEN <<>> ELSE InsertSorted(s[1], sorted(Tail(s)))

RECURSIVE InsertInt(_, _)
InsertInt(x, s) ==
    IF s = <<>> THEN <<x>>
    ELSE IF s[1] <= x THEN <<s[1]>> \o InsertInt(x, Tail(s))
         ELSE <<x>> \o s

RECURSIVE sorted_ints(_)
sorted_ints(s) == IF s = <<>> THEN <<>> ELSE InsertInt(s[1], sorted_ints(Tail(s)))

Min(S) == CHOOSE x \in S : \A y \in S : x <= y
Max(S) == CHOOSE x \in S : \A y \in S : y <= x

\* list(range(lo, hi + 1))
RangeList(lo, hi) == [i \in 1 .. (hi - lo + 1) |-> lo + i - 1]

---------------------------------------------------------------------------
(* utils.py: the fleet validator *)

\* ships_touch_or_overlap: for every coordinate of every ship and every
\* entry of the list, an entry that holds the coordinate is skipped as "the
\* ship itself"; otherwise a neighbour of the coordinate in it is a touch.
ships_touch_or_overlap(ships) ==
    \E i \in DOMAIN ships : \E k \in DOMAIN ships[i] : \E j \in DOMAIN ships :
        /\ ships[i][k] \notin Range(ships[j])
        /\ get_adjacent_and_diagonal_cells(ships[i][k]) \cap Range(ships[j]) # {}

ship_rows(ship) == [k \in DOMAIN ship |-> ship[k][1]]
ship_cols(ship) == [k \in DOMAIN ship |-> ship[k][2]]

ShipOutOfBounds(ship) == \E k \in DOMAIN ship : ~in_bounds(ship[k])

ShipNotStraight(ship) ==
    ~(   (\A k \in DOMAIN ship : ship[k][1] = ship[1][1])
      \/ (\A k \in DOMAIN ship : ship[k][2] = ship[1][2]))

ShipHasGaps(ship) ==
    /\ sorted_ints(ship_rows(ship))
          # RangeList(Min(Range(ship_rows(ship))), Max(Range(ship_rows(ship))))
    /\ sorted_ints(ship_cols(ship))
          # RangeList(Min(Range(ship_cols(ship))), Max(Range(ship_cols(ship))))

\* mutant: the straight-line test runs before the bounds test
ShipError_straight_first(ship) ==
    IF ShipNotStraight(ship) THEN "Ship is not a straight line."
    ELSE IF ShipOutOfBounds(ship) THEN "Ship coordinates out of bounds."
    ELSE IF ShipHasGaps(ship) THEN "Ship has gaps in its placement."
    ELSE "ok"

\* the per-ship checks of the loop body, in the order the loop runs them
ShipError(ship) ==
    IF ShipOutOfBounds(ship) THEN "Ship coordinates out of bounds."
    ELSE IF ShipNotStraight(ship) THEN "Ship is not a straight line."
    ELSE IF ShipHasGaps(ship) THEN "Ship has gaps in its placement."
    ELSE "ok"

ship_lengths(ships) == [i \in DOMAIN ships |-> Len(ships[i])]

validate_ship_fleet(ships) ==
    IF sorted_ints(ship_lengths(ships)) # sorted_ints(SHIP_SIZES)
    THEN [valid |-> FALSE,
          reason |-> "Fleet sizes do not match required configuration."]
    ELSE IF \E i \in DOMAIN ships : ShipError(ships[i]) # "ok"
    THEN [valid |-> FALSE,
          reason |-> ShipError(ships[Min({i \in DOMAIN ships :
                                            ShipError(ships[i]) # "ok"})])]
    ELSE IF ships_touch_or_overlap(ships)
    THEN [valid |-> FALSE, reason |-> "Ships cannot touch or overlap."]
    ELSE [valid |-> TRUE, reason |-> "None"]

---------------------------------------------------------------------------
(* gameplay.py: boards and the move resolver *)

EmptyBoard == [c \in Cells |-> " "]

create_ship_board(ships) ==
    [c \in Cells |->
        IF \E i \in DOMAIN ships : c \in Range(ships[i]) THEN "S" ELSE " "]

\* the ships of the list that hold the coordinate, by index
ShipsAt(coord, ships) == {i \in DOMAIN ships : coord \in Range(ships[i])}

AllHit(ship, board) == \A k \in DOMAIN ship : board[ship[k]] = "H"

\* mutant: a sunk ship anywhere in the fleet counts, not only the one hit
check_if_ship_sunk_any_ship(coord, ships, board) ==
    \E i \in DOMAIN ships : AllHit(ships[i], board)

check_if_ship_sunk(coord, ships, board) ==
    \E i \in ShipsAt(coord, ships) : AllHit(ships[i], board)

\* mutant: the ring around the ship is two cells wide
SurroundingCells_two_wide(ship) ==
    {c \in Cells : \E k \in DOMAIN ship : /\ Abs(c[1] - ship[k][1]) <= 2
                                           /\ Abs(c[2] - ship[k][2]) <= 2}

\* the in-bounds neighbours of every cell of the ship (ship_cells in the code)
SurroundingCells(ship) ==
    UNION {get_adjacent_and_diagonal_cells(ship[k]) : k \in DOMAIN ship}

\* mutant: only the neighbours of the attacked cell are marked
mark_surrounding_attacked_cell_only(coord, ships, board) ==
    [c \in Cells |->
        IF c \in get_adjacent_and_diagonal_cells(coord) /\ board[c] = " "
        THEN "M" ELSE board[c]]

\* mutant: the neighbours are marked without the test that they are " "
mark_surrounding_overwrites(coord, ships, board) ==
    IF ShipsAt(coord, ships) = {} THEN board
    ELSE LET ship == ships[Min(ShipsAt(coord, ships))]
         IN  IF AllHit(ship, board)
             THEN [c \in Cells |->
                     IF c \in SurroundingCells(ship) THEN "M" ELSE board[c]]
             ELSE board

\* only the first ship holding the coordinate is looked at (the loop breaks)
mark_surrounding_cells_as_miss(coord, ships, board) ==
    IF ShipsAt(coord, ships) = {} THEN board
    ELSE LET ship == ships[Min(ShipsAt(coord, ships))]
         IN  IF AllHit(ship, board)
             THEN [c \in Cells |->
                     IF c \in SurroundingCells(ship) /\ board[c] = " "
                     THEN "M" ELSE board[c]]
             ELSE board

\* mutant: the already-attacked test is left out
apply_move_no_resolved_test(board, ship_board, ships, coord) ==
    IF ~in_bounds(coord) THEN [result |-> "invalid", board |-> board]
    ELSE IF ship_board[coord] = "S"
    THEN LET hit == [board EXCEPT ![coord] = "H"]
         IN  IF check_if_ship_sunk(coord, ships, hit)
             THEN [result |-> "sink",
                   board |-> mark_surrounding_cells_as_miss(coord, ships, hit)]
             ELSE [result |-> "hit", board |-> hit]
    ELSE [result |-> "miss", board |-> [board EXCEPT ![coord] = "M"]]

\* mutant: a miss is answered but not written on the board
apply_move_miss_not_recorded(board, ship_board, ships, coord) ==
    IF ~in_bounds(coord) THEN [result |-> "invalid", board |-> board]
    ELSE IF board[coord] \in {"M", "H"}
    THEN [result |-> "invalid", board |-> board]
    ELSE IF ship_board[coord] = "S"
    THEN LET hit == [board EXCEPT ![coord] = "H"]
         IN  IF check_if_ship_sunk(coord, ships, hit)
             THEN [result |-> "sink",
                   board |-> mark_surrounding_cells_as_miss(coord, ships, hit)]
             ELSE [result |-> "hit", board |-> hit]
    ELSE [result |-> "miss", board |-> board]

\* mutant: a hit that does not sink also marks the diagonal neighbours of
\* the attacked cell, where no straight ship can continue
apply_move_hit_marks_diagonals(board, ship_board, ships, coord) ==
    IF ~in_bounds(coord) THEN [result |-> "invalid", board |-> board]
    ELSE IF board[coord] \in {"M", "H"}
    THEN [result |-> "invalid", board |-> board]
    ELSE IF ship_board[coord] = "S"
    THEN LET hit == [board EXCEPT ![coord] = "H"]
         IN  IF check_if_ship_sunk(coord, ships, hit)
             THEN [result |-> "sink",
                   board |-> mark_surrounding_cells_as_miss(coord, ships, hit)]
             ELSE [result |-> "hit",
                   board |-> [c \in Cells |->
                                IF /\ Abs(c[1] - coord[1]) = 1
                                   /\ Abs(c[2] - coord[2]) = 1
                                   /\ hit[c] = " "
                                THEN "M" ELSE hit[c]]]
    ELSE [result |-> "miss", board |-> [board EXCEPT ![coord] = "M"]]

apply_move(board, ship_board, ships, coord) ==
    IF ~in_bounds(coord) THEN [result |-> "invalid", board |-> board]
    ELSE IF board[coord] \in {"M", "H"}
    THEN [result |-> "invalid", board |-> board]
    ELSE IF ship_board[coord] = "S"
    THEN LET hit == [board EXCEPT ![coord] = "H"]
         IN  IF check_if_ship_sunk(coord, ships, hit)
             THEN [result |-> "sink",
                   board |-> mark_surrounding_cells_as_miss(coord, ships, hit)]
             ELSE [result |-> "hit", board |-> hit]
    ELSE [result |-> "miss", board |-> [board EXCEPT ![coord] = "M"]]

\* mutant: True as soon as one ship is entirely hit
all_ships_sunk_one_ship(ships, board) ==
    \E i \in DOMAIN ships : AllHit(ships[i], board)

\* all_player_ships_sunk / all_bot_ships_sunk: the loop returns False at the
\* first ship with a cell that is not "H", True when the list is exhausted
RECURSIVE all_ships_sunk(_, _)
all_ships_sunk(ships, board) ==
    IF ships = <<>> THEN TRUE
    ELSE IF ~AllHit(ships[1], board) THEN FALSE
    ELSE all_ships_sunk(Tail(ships), board)

---------------------------------------------------------------------------
(* gameplay.py: the targeting AI.  The AI fields travel as a record        *)
(* [mode, chain, last_hit, orientation]; a chooser yields the set of       *)
(* outcomes [move, ai] it can return (one per random.choice), ai being the *)
(* fields as the chooser leaves them.                                      *)

AIState(mode, chain, last_hit, orientation) ==
    [mode |-> mode, chain |-> chain, last_hit |-> last_hit,
     orientation |-> orientation]

ResetAI == AIState(RANDOM, <<>>, NoCoord, NoOrientation)

\* mutant: only the first two sorted hits are compared
infer_orientation_first_two(chain, orientation) ==
    IF Len(chain) < 2 THEN orientation
    ELSE LET sorted_hits == sorted(chain)
         IN  IF sorted_hits[2][1] = sorted_hits[1][1]
             THEN "horizontal"
             ELSE IF sorted_hits[2][2] = sorted_hits[1][2]
             THEN "vertical"
             ELSE NoOrientation

\* mutant: two hits are not enough, an orientation takes three
infer_orientation_needs_three(chain, orientation) ==
    IF Len(chain) < 3 THEN orientation
    ELSE LET sorted_hits == sorted(chain)
         IN  IF \A k \in DOMAIN sorted_hits :
                    sorted_hits[k][1] = sorted_hits[1][1]
             THEN "horizontal"
             ELSE IF \A k \in DOMAIN sorted_hits :
                         sorted_hits[k][2] = sorted_hits[1][2]
             THEN "vertical"
             ELSE NoOrientation

infer_orientation(chain, orientation) ==
    IF Len(chain) < 2 THEN orientation
    ELSE LET sorted_hits == sorted(chain)
         IN  IF \A k \in DOMAIN sorted_hits :
                    sorted_hits[k][1] = sorted_hits[1][1]
             THEN "horizontal"
             ELSE IF \A k \in DOMAIN sorted_hits :
                         sorted_hits[k][2] = sorted_hits[1][2]
             THEN "vertical"
             ELSE NoOrientation

\* available_moves, or any in-bounds coordinate when there is none
choose_random_move(board) ==
    IF {c \in Cells : board[c] = " "} = {} THEN Cells
    ELSE {c \in Cells : board[c] = " "}

RandomOutcomes(ai, board) ==
    {[move |-> m, ai |-> ai] : m \in choose_random_move(board)}

\* mutant: the probe only tests the bounds, not that the cell is still " "
FirstOpen_bounds_only(cands, board) ==
    LET open == {i \in DOMAIN cands : in_bounds(cands[i])}
    IN  IF open = {} THEN NoCoord ELSE cands[Min(open)]

\* the first coordinate of the list that is in bounds and still " "
FirstOpen(cands, board) ==
    LET open == {i \in DOMAIN cands :
                    in_bounds(cands[i]) /\ board[cands[i]] = " "}
    IN  IF open = {} THEN NoCoord ELSE cands[Min(open)]

HuntDirections(orientation) ==
    IF orientation = "horizontal"
    THEN << <<0, -1>>, <<0, 1>>, <<-1, 0>>, <<1, 0>> >>
    ELSE << <<-1, 0>>, <<1, 0>>, <<0, -1>>, <<0, 1>> >>

\* the four probes around a hit, in the order of the directions
HuntProbes(hit, orientation) ==
    [i \in 1 .. 4 |-> <<hit[1] + HuntDirections(orientation)[i][1],
                        hit[2] + HuntDirections(orientation)[i][2]>>]

\* mutant: at a dead end the random move is made with the lead kept
choose_hunt_move_keeps_lead(ai, board) ==
    IF ai.last_hit = NoCoord
    THEN RandomOutcomes([ai EXCEPT !.mode = RANDOM], board)
    ELSE IF FirstOpen(HuntProbes(ai.last_hit, ai.orientation), board) # NoCoord
    THEN {[move |-> FirstOpen(HuntProbes(ai.last_hit, ai.orientation), board),
           ai |-> ai]}
    ELSE LET others == {k \in DOMAIN ai.chain :
                          /\ ai.chain[k] # ai.last_hit
                          /\ FirstOpen(HuntProbes(ai.chain[k], ai.orientation),
                                       board) # NoCoord}
         IN  IF others # {}
             THEN {[move |-> FirstOpen(HuntProbes(ai.chain[Min(others)],
                                                  ai.orientation), board),
                    ai |-> [ai EXCEPT !.last_hit = ai.chain[Min(others)]]]}
             ELSE RandomOutcomes(ai, board)

choose_hunt_move(ai, board) ==
    IF ai.last_hit = NoCoord
    THEN RandomOutcomes([ai EXCEPT !.mode = RANDOM], board)
    ELSE IF FirstOpen(HuntProbes(ai.last_hit, ai.orientation), board) # NoCoord
    THEN {[move |-> FirstOpen(HuntProbes(ai.last_hit, ai.orientation), board),
           ai |-> ai]}
    ELSE LET others == {k \in DOMAIN ai.chain :
                          /\ ai.chain[k] # ai.last_hit
                          /\ FirstOpen(HuntProbes(ai.chain[k], ai.orientation),
                                       board) # NoCoord}
         IN  IF others # {}
             THEN {[move |-> FirstOpen(HuntProbes(ai.chain[Min(others)],
                                                  ai.orientation), board),
                    ai |-> [ai EXCEPT !.last_hit = ai.chain[Min(others)]]]}
             ELSE RandomOutcomes(ResetAI, board)

\* the cells between consecutive sorted hits, along the columns
HorizontalGaps(sorted_hits, row) ==
    LET gap(i) == IF sorted_hits[i + 1][2] - sorted_hits[i][2] > 1
                  THEN [k \in 1 .. (sorted_hits[i + 1][2] - sorted_hits[i][2] - 1)
                            |-> <<row, sorted_hits[i][2] + k>>]
                  ELSE <<>>
        F[i \in 0 .. (Len(sorted_hits) - 1)] ==
            IF i = 0 THEN <<>> ELSE F[i - 1] \o gap(i)
    IN  F[Len(sorted_hits) - 1]

VerticalGaps(sorted_hits, col) ==
    LET gap(i) == IF sorted_hits[i + 1][1] - sorted_hits[i][1] > 1
                  THEN [k \in 1 .. (sorted_hits[i + 1][1] - sorted_hits[i][1] - 1)
                            |-> <<sorted_hits[i][1] + k, col>>]
                  ELSE <<>>
        F[i \in 0 .. (Len(sorted_hits) - 1)] ==
            IF i = 0 THEN <<>> ELSE F[i - 1] \o gap(i)
    IN  F[Len(sorted_hits) - 1]

\* mutant: the cells left of the leftmost hit are not probed
LockedHorizontalProbes_right_only(sorted_hits) ==
    LET row == sorted_hits[1][1]
        right_col == Max({sorted_hits[k][2] : k \in DOMAIN sorted_hits})
    IN  [o \in 1 .. 4 |-> <<row, right_col + o>>]
        \o HorizontalGaps(sorted_hits, row)

\* mutant: the cells right of the rightmost hit are probed before the cells
\* left of the leftmost
LockedHorizontalProbes_right_first(sorted_hits) ==
    LET row == sorted_hits[1][1]
        left_col == Min({sorted_hits[k][2] : k \in DOMAIN sorted_hits})
        right_col == Max({sorted_hits[k][2] : k \in DOMAIN sorted_hits})
    IN  [o \in 1 .. 4 |-> <<row, right_col + o>>]
        \o [o \in 1 .. 4 |-> <<row, left_col - o>>]
        \o HorizontalGaps(sorted_hits, row)

\* the probe order of choose_locked_horizontal_move: up to 4 cells left of
\* the leftmost hit, up to 4 right of the rightmost, then the gaps
LockedHorizontalProbes(sorted_hits) ==
    LET row == sorted_hits[1][1]
        left_col == Min({sorted_hits[k][2] : k \in DOMAIN sorted_hits})
        right_col == Max({sorted_hits[k][2] : k \in DOMAIN sorted_hits})
    IN  [o \in 1 .. 4 |-> <<row, left_col - o>>]
        \o [o \in 1 .. 4 |-> <<row, right_col + o>>]
        \o HorizontalGaps(sorted_hits, row)

LockedVerticalProbes(sorted_hits) ==
    LET col == sorted_hits[1][2]
        top_row == Min({sorted_hits[k][1] : k \in DOMAIN sorted_hits})
        bottom_row == Max({sorted_hits[k][1] : k \in DOMAIN sorted_hits})
    IN  [o \in 1 .. 4 |-> <<top_row - o, col>>]
        \o [o \in 1 .. 4 |-> <<bottom_row + o, col>>]
        \o VerticalGaps(sorted_hits, col)

choose_locked_horizontal_move(ai, sorted_hits, board) ==
    IF FirstOpen(LockedHorizontalProbes(sorted_hits), board) # NoCoord
    THEN {[move |-> FirstOpen(LockedHorizontalProbes(sorted_hits), board),
           ai |-> ai]}
    ELSE choose_hunt_move([ai EXCEPT !.mode = HUNT], board)

choose_locked_vertical_move(ai, sorted_hits, board) ==
    IF FirstOpen(LockedVerticalProbes(sorted_hits), board) # NoCoord
    THEN {[move |-> FirstOpen(LockedVerticalProbes(sorted_hits), board),
           ai |-> ai]}
    ELSE choose_hunt_move([ai EXCEPT !.mode = HUNT], board)

\* with no orientation yet it is inferred once and the choice is made again
choose_locked_move(ai, board) ==
    IF Len(ai.chain) < 2
    THEN choose_hunt_move([ai EXCEPT !.mode = HUNT], board)
    ELSE LET o == IF ai.orientation \in {"horizontal", "vertical"}
                  THEN ai.orientation
                  ELSE infer_orientation(ai.chain, ai.orientation)
             ai2 == [ai EXCEPT !.orientation = o]
         IN  IF o = "horizontal"
             THEN choose_locked_horizontal_move(ai2, sorted(ai.chain), board)
             ELSE IF o = "vertical"
             THEN choose_locked_vertical_move(ai2, sorted(ai.chain), board)
             ELSE choose_hunt_move([ai2 EXCEPT !.mode = HUNT], board)

choose_bot_move(ai, board) ==
    IF ai.mode = RANDOM THEN RandomOutcomes(ai, board)
    ELSE IF ai.mode = HUNT THEN choose_hunt_move(ai, board)
    ELSE IF ai.mode = LOCKED THEN choose_locked_move(ai, board)
    ELSE RandomOutcomes(ai, board)

\* mutant: any hit in the row or the column of a hit of the chain counts
\* as the same ship
IsSameShip_same_line(chain, move) ==
    \E k \in DOMAIN chain :
        chain[k][1] = move[1] \/ chain[k][2] = move[2]

\* is_same_ship: the move is a 4-neighbour of some hit of the chain
IsSameShip(chain, move) ==
    \E k \in DOMAIN chain :
        \/ (Abs(chain[k][1] - move[1]) = 1 /\ chain[k][2] = move[2])
        \/ (Abs(chain[k][2] - move[2]) = 1 /\ chain[k][1] = move[1])

\* mutant: a sink clears the chain, the last hit and the orientation but
\* leaves the mode
UpdateAI_sink_keeps_mode(ai, move, result) ==
    IF result = "hit"
    THEN IF ai.chain = <<>>
         THEN [ai EXCEPT !.chain = <<move>>, !.last_hit = move, !.mode = HUNT]
         ELSE IF IsSameShip(ai.chain, move) /\ move \notin Range(ai.chain)
         THEN LET chain == Append(ai.chain, move)
                  o == infer_orientation(chain, ai.orientation)
              IN  AIState(IF o # NoOrientation THEN LOCKED ELSE ai.mode,
                          chain, move, o)
         ELSE AIState(HUNT, <<move>>, move, NoOrientation)
    ELSE IF result = "sink"
    THEN AIState(ai.mode, <<>>, NoCoord, NoOrientation)
    ELSE IF result = "miss"
    THEN IF ai.mode = HUNT /\ Len(ai.chain) >= 2
         THEN LET o == infer_orientation(ai.chain, ai.orientation)
              IN  [ai EXCEPT !.orientation = o,
                             !.mode = IF o # NoOrientation THEN LOCKED ELSE HUNT]
         ELSE ai
    ELSE ai

\* mutant: a hit away from the chain is added to it instead of replacing it
UpdateAI_keeps_old_chain(ai, move, result) ==
    IF result = "hit"
    THEN IF ai.chain = <<>>
         THEN [ai EXCEPT !.chain = <<move>>, !.last_hit = move, !.mode = HUNT]
         ELSE IF IsSameShip(ai.chain, move) /\ move \notin Range(ai.chain)
         THEN LET chain == Append(ai.chain, move)
                  o == infer_orientation(chain, ai.orientation)
              IN  AIState(IF o # NoOrientation THEN LOCKED ELSE ai.mode,
                          chain, move, o)
         ELSE AIState(HUNT, Append(ai.chain, move), move, NoOrientation)
    ELSE IF result = "sink" THEN ResetAI
    ELSE IF result = "miss"
    THEN IF ai.mode = HUNT /\ Len(ai.chain) >= 2
         THEN LET o == infer_orientation(ai.chain, ai.orientation)
              IN  [ai EXCEPT !.orientation = o,
                             !.mode = IF o # NoOrientation THEN LOCKED ELSE HUNT]
         ELSE ai
    ELSE ai

\* mutant: a further hit on the chain infers the orientation but the mode
\* is left as it was
UpdateAI_no_lock(ai, move, result) ==
    IF result = "hit"
    THEN IF ai.chain = <<>>
         THEN [ai EXCEPT !.chain = <<move>>, !.last_hit = move, !.mode = HUNT]
         ELSE IF IsSameShip(ai.chain, move) /\ move \notin Range(ai.chain)
         THEN LET chain == Append(ai.chain, move)
                  o == infer_orientation(chain, ai.orientation)
              IN  AIState(ai.mode, chain, move, o)
         ELSE AIState(HUNT, <<move>>, move, NoOrientation)
    ELSE IF result = "sink" THEN ResetAI
    ELSE IF result = "miss"
    THEN IF ai.mode = HUNT /\ Len(ai.chain) >= 2
         THEN LET o == infer_orientation(ai.chain, ai.orientation)
              IN  [ai EXCEPT !.orientation = o,
                             !.mode = IF o # NoOrientation THEN LOCKED ELSE HUNT]
         ELSE ai
    ELSE ai

\* mutant: a sink leaves the AI fields as they are
UpdateAI_sink_keeps_chain(ai, move, result) ==
    IF result = "hit"
    THEN IF ai.chain = <<>>
         THEN [ai EXCEPT !.chain = <<move>>, !.last_hit = move, !.mode = HUNT]
         ELSE IF IsSameShip(ai.chain, move) /\ move \notin Range(ai.chain)
         THEN LET chain == Append(ai.chain, move)
                  o == infer_orientation(chain, ai.orientation)
              IN  AIState(IF o # NoOrientation THEN LOCKED ELSE ai.mode,
                          chain, move, o)
         ELSE AIState(HUNT, <<move>>, move, NoOrientation)
    ELSE IF result = "sink" THEN ai
    ELSE IF result = "miss"
    THEN IF ai.mode = HUNT /\ Len(ai.chain) >= 2
         THEN LET o == infer_orientation(ai.chain, ai.orientation)
              IN  [ai EXCEPT !.orientation = o,
                             !.mode = IF o # NoOrientation THEN LOCKED ELSE HUNT]
         ELSE ai
    ELSE ai

\* mutant: the first hit starts the chain but the mode is left as it was
UpdateAI_first_hit_keeps_mode(ai, move, result) ==
    IF result = "hit"
    THEN IF ai.chain = <<>>
         THEN [ai EXCEPT !.chain = <<move>>, !.last_hit = move]
         ELSE IF IsSameShip(ai.chain, move) /\ move \notin Range(ai.chain)
         THEN LET chain == Append(ai.chain, move)
                  o == infer_orientation(chain, ai.orientation)
              IN  AIState(IF o # NoOrientation THEN LOCKED ELSE ai.mode,
                          chain, move, o)
         ELSE AIState(HUNT, <<move>>, move, NoOrientation)
    ELSE IF result = "sink" THEN ResetAI
    ELSE IF result = "miss"
    THEN IF ai.mode = HUNT /\ Len(ai.chain) >= 2
         THEN LET o == infer_orientation(ai.chain, ai.orientation)
              IN  [ai EXCEPT !.orientation = o,
                             !.mode = IF o # NoOrientation THEN LOCKED ELSE HUNT]
         ELSE ai
    ELSE ai

\* mutant: a miss drops the lead as a sink does
UpdateAI_miss_resets(ai, move, result) ==
    IF result = "hit"
    THEN IF ai.chain = <<>>
         THEN [ai EXCEPT !.chain = <<move>>, !.last_hit = move, !.mode = HUNT]
         ELSE IF IsSameShip(ai.chain, move) /\ move \notin Range(ai.chain)
         THEN LET chain == Append(ai.chain, move)
                  o == infer_orientation(chain, ai.orientation)
              IN  AIState(IF o # NoOrientation THEN LOCKED ELSE ai.mode,
                          chain, move, o)
         ELSE AIState(HUNT, <<move>>, move, NoOrientation)
    ELSE IF result = "sink" THEN ResetAI
    ELSE IF result = "miss" THEN ResetAI
    ELSE ai

\* bot_take_turn after apply_bot_move: the AI fields for the result
UpdateAI(ai, move, result) ==
    IF result = "hit"
    THEN IF ai.chain = <<>>
         THEN [ai EXCEPT !.chain = <<move>>, !.last_hit = move, !.mode = HUNT]
         ELSE IF IsSameShip(ai.chain, move) /\ move \notin Range(ai.chain)
         THEN LET chain == Append(ai.chain, move)
                  o == infer_orientation(chain, ai.orientation)
              IN  AIState(IF o # NoOrientation THEN LOCKED ELSE ai.mode,
                          chain, move, o)
         ELSE AIState(HUNT, <<move>>, move, NoOrientation)
    ELSE IF result = "sink" THEN ResetAI
    ELSE IF result = "miss"
    THEN IF ai.mode = HUNT /\ Len(ai.chain) >= 2
         THEN LET o == infer_orientation(ai.chain, ai.orientation)
              IN  [ai EXCEPT !.orientation = o,
                             !.mode = IF o # NoOrientation THEN LOCKED ELSE HUNT]
         ELSE ai
    ELSE ai

\* mutant: a sink grants no extra shot
GetsExtraShot_hit_only(result) == result = "hit"

\* the extra-shot flag both take_turn methods set from the result
GetsExtraShot(result) == result = "hit" \/ result = "sink"

---------------------------------------------------------------------------
(* bot_generation.py: the fleets the generator proposes *)

\* every ship generate_ship(size) can return
generate_ship(size) ==
    {[i \in 1 .. size |-> <<row, col + i - 1>>] :
        row \in 0 .. BOARD_SIZE - 1, col \in 0 .. BOARD_SIZE - size}
    \cup
    {[i \in 1 .. size |-> <<row + i - 1, col>>] :
        row \in 0 .. BOARD_SIZE - size, col \in 0 .. BOARD_SIZE - 1}

\* the ships list after the first n passes of the for loop of
\* generate_bot_ships: a ship of each size appended in turn
RECURSIVE ships_after(_)
ships_after(n) ==
    IF n = 0 THEN {<<>>}
    ELSE {Append(ships, ship) :
            ships \in ships_after(n - 1), ship \in generate_ship(SHIP_SIZES[n])}

\* one pass of the loop of generate_bot_ships: a ship per entry of SHIP_SIZES
ProposedFleets == ships_after(Len(SHIP_SIZES))

\* generate_bot_ships returns the first proposal the validator accepts
generate_bot_ships == {f \in ProposedFleets : validate_ship_fleet(f).valid}

---------------------------------------------------------------------------
(* main.py: the game loop *)

Other(side) == IF side = "player" THEN "bot" ELSE "player"

\* mutant: the test that guards the increment is inverted
next_turn_inverted_test(turn, number, player_flag, bot_flag) ==
    [turn_number |-> IF player_flag \/ bot_flag THEN number + 1 ELSE number,
     current_turn |-> IF player_flag THEN "player"
                      ELSE IF bot_flag THEN "bot"
                      ELSE Other(turn)]

\* mutant: the final else is lost, the turn goes to the bot whenever the
\* player has no extra shot
next_turn_no_alternation(turn, number, player_flag, bot_flag) ==
    [turn_number |-> IF ~(player_flag \/ bot_flag) THEN number + 1 ELSE number,
     current_turn |-> IF player_flag THEN "player" ELSE "bot"]

next_turn(turn, number, player_flag, bot_flag) ==
    [turn_number |-> IF ~(player_flag \/ bot_flag) THEN number + 1 ELSE number,
     current_turn |-> IF player_flag THEN "player"
                      ELSE IF bot_flag THEN "bot"
                      ELSE Other(turn)]

\* mutant: the win check runs only where the turn is handed over
LoopStep_win_check_at_handoff(side, won, player_flag, bot_flag) ==
    IF IF side = "player" THEN player_flag ELSE bot_flag
    THEN [pc |-> "loop", turn_number |-> turn_number,
          current_turn |-> current_turn]
    ELSE IF won
    THEN [pc |-> IF side = "player" THEN "player_wins" ELSE "bot_wins",
          turn_number |-> turn_number, current_turn |-> current_turn]
    ELSE [pc |-> "loop",
          turn_number |-> IF ~(player_flag \/ bot_flag)
                          THEN turn_number + 1 ELSE turn_number,
          current_turn |-> IF player_flag THEN "player"
                           ELSE IF bot_flag THEN "bot"
                           ELSE Other(current_turn)]

\* one pass of the inner while loop after the side's take_turn returned:
\* the win check, then next_turn() unless the side gets an extra shot
LoopStep(side, won, player_flag, bot_flag) ==
    IF won
    THEN [pc |-> IF side = "player" THEN "player_wins" ELSE "bot_wins",
          turn_number |-> turn_number, current_turn |-> current_turn]
    ELSE IF ~(IF side = "player" THEN player_flag ELSE bot_flag)
    THEN [pc |-> "loop"] @@ next_turn(current_turn, turn_number,
                                      player_flag, bot_flag)
    ELSE [pc |-> "loop", turn_number |-> turn_number,
          current_turn |-> current_turn]

\* ask_player_for_move returns only an in-bounds cell of bot_board that is " "
ask_player_for_move(board) == {c \in Cells : board[c] = " "}

\* Bounds of the game runs: the loop is followed for MaxTurns handoffs, and
\* the human is taken to answer with one of the first PlayerChoices open
\* cells in row-major order.
MaxTurns == 5
PlayerChoices == 2

PlayerInputs(board) ==
    {c \in ask_player_for_move(board) :
        Cardinality({d \in ask_player_for_move(board) : CoordLess(d, c)})
            < PlayerChoices}

\* The fleets the games are started from: fleets the validator accepts (the
\* last one holds its two size-1 ships on one cell).
SampleFleets ==
    { << << <<1, 0>>, <<1, 1>>, <<1, 2>> >>, << <<3, 0>> >>, << <<3, 3>> >> >>,
      << << <<0, 1>>, <<0, 2>>, <<0, 3>> >>, << <<2, 0>> >>, << <<3, 2>> >> >>,
      << << <<0, 3>>, <<1, 3>>, <<2, 3>> >>, << <<0, 0>> >>, << <<2, 0>> >> >>,
      << << <<1, 1>>, <<2, 1>>, <<3, 1>> >>, << <<0, 3>> >>, << <<0, 3>> >> >> }

PlayerFleets == {f \in SampleFleets : validate_ship_fleet(f).valid}

BotFleets ==
    {f \in PlayerFleets : \E i \in DOMAIN f : f[i][1] \in {<<0, 0>>, <<0, 1>>}}

\* GameState.__init__ after both fleets were acquired
Init ==
    /\ player_ships \in PlayerFleets
    /\ bot_ships \in BotFleets
    /\ player_board = EmptyBoard
    /\ bot_board = EmptyBoard
    /\ player_board_ships = create_ship_board(player_ships)
    /\ bot_board_ships = create_ship_board(bot_ships)
    /\ bot_mode = RANDOM
    /\ bot_hit_chain = <<>>
    /\ bot_last_hit = NoCoord
    /\ bot_orientation = NoOrientation
    /\ current_turn = "player"
    /\ player_gets_extra_shot = FALSE
    /\ bot_gets_extra_shot = FALSE
    /\ turn_number = 0
    /\ pc = "loop"
    /\ last_attacker = "none"
    /\ last_coord = NoCoord
    /\ last_result = "none"
    /\ calls = 0
    /\ candidate = <<>>
    /\ verdict = [valid |-> FALSE, reason |-> "not validated"]

\* player_take_turn(ask_player_for_move()) and the rest of the loop body
PlayerAttack ==
    /\ pc = "loop"
    /\ turn_number < MaxTurns
    /\ current_turn = "player"
    /\ \E coord \in PlayerInputs(bot_board) :
         LET r == apply_move(bot_board, bot_board_ships, bot_ships, coord)
             flag == GetsExtraShot(r.result)
             step == LoopStep("player", all_ships_sunk(bot_ships, r.board),
                              flag, bot_gets_extra_shot)
         IN  /\ bot_board' = r.board
             /\ player_gets_extra_shot' = flag
             /\ pc' = step.pc
             /\ current_turn' = step.current_turn
             /\ turn_number' = step.turn_number
             /\ last_attacker' = "player"
             /\ last_coord' = coord
             /\ last_result' = r.result
    /\ UNCHANGED <<player_ships, bot_ships, player_board, player_board_ships,
                   bot_board_ships, bot_mode, bot_hit_chain, bot_last_hit,
                   bot_orientation, bot_gets_extra_shot, calls, candidate,
                   verdict>>

\* bot_take_turn() and the rest of the loop body
BotAttack ==
    /\ pc = "loop"
    /\ turn_number < MaxTurns
    /\ current_turn = "bot"
    /\ \E o \in choose_bot_move(AIState(bot_mode, bot_hit_chain, bot_last_hit,
                                        bot_orientation), player_board) :
         LET r == apply_move(player_board, player_board_ships, player_ships,
                             o.move)
             flag == GetsExtraShot(r.result)
             ai == UpdateAI(o.ai, o.move, r.result)
             step == LoopStep("bot", all_ships_sunk(player_ships, r.board),
                              player_gets_extra_shot, flag)
         IN  /\ player_board' = r.board
             /\ bot_gets_extra_shot' = flag
             /\ bot_mode' = ai.mode
             /\ bot_hit_chain' = ai.chain
             /\ bot_last_hit' = ai.last_hit
             /\ bot_orientation' = ai.orientation
             /\ pc' = step.pc
             /\ current_turn' = step.current_turn
             /\ turn_number' = step.turn_number
             /\ last_attacker' = "bot"
             /\ last_coord' = o.move
             /\ last_result' = r.result
    /\ UNCHANGED <<player_ships, bot_ships, bot_board, player_board_ships,
                   bot_board_ships, player_gets_extra_shot, calls, candidate,
                   verdict>>

Next == PlayerAttack \/ BotAttack

Spec == Init /\ [][Next]_vars

---------------------------------------------------------------------------
(* The loop body with player_take_turn called on any coordinate: the cells *)
(* ask_player_for_move would return, cells that are already resolved and   *)
(* coordinates off the board.                                              *)

\* the inputs of the player, the first resolved cell in row-major order and
\* a coordinate outside the board
UncheckedInputs(board) ==
    PlayerInputs(board)
    \cup {c \in Cells :
            /\ board[c] # " "
            /\ \A d \in Cells : board[d] # " " => (d = c \/ CoordLess(c, d))}
    \cup {<<0, BOARD_SIZE>>}

\* player_take_turn(coord) and the rest of the loop body
PlayerTakeTurnAny ==
    /\ pc = "loop"
    /\ turn_number < MaxTurns
    /\ current_turn = "player"
    /\ \E coord \in UncheckedInputs(bot_board) :
         LET r == apply_move(bot_board, bot_board_ships, bot_ships, coord)
             flag == GetsExtraShot(r.result)
             step == LoopStep("player", all_ships_sunk(bot_ships, r.board),
                              flag, bot_gets_extra_shot)
         IN  /\ bot_board' = r.board
             /\ player_gets_extra_shot' = flag
             /\ pc' = step.pc
             /\ current_turn' = step.current_turn
             /\ turn_number' = step.turn_number
             /\ last_attacker' = "player"
             /\ last_coord' = coord
             /\ last_result' = r.result
    /\ UNCHANGED <<player_ships, bot_ships, player_board, player_board_ships,
                   bot_board_ships, bot_mode, bot_hit_chain, bot_last_hit,
                   bot_orientation, bot_gets_extra_shot, calls, candidate,
                   verdict>>

\* the games in which both sides placed the same fleet
InitUnchecked == Init /\ player_ships = bot_ships

NextUnchecked == PlayerTakeTurnAny \/ BotAttack

SpecUnchecked == InitUnchecked /\ [][NextUnchecked]_vars

---------------------------------------------------------------------------
(* The move resolver driven directly: apply_bot_move is called with any    *)
(* coordinate, in or out of bounds, attacked before or not.                *)

MaxCalls == 3

\* the coordinates handed to apply_move: every cell and the ring around
\* the board
ProbeCoords == (-1 .. BOARD_SIZE) \X (-1 .. BOARD_SIZE)

InitResolver ==
    /\ player_ships \in PlayerFleets
    /\ bot_ships = <<>>
    /\ player_board = EmptyBoard
    /\ bot_board = EmptyBoard
    /\ player_board_ships = create_ship_board(player_ships)
    /\ bot_board_ships = EmptyBoard
    /\ bot_mode = RANDOM
    /\ bot_hit_chain = <<>>
    /\ bot_last_hit = NoCoord
    /\ bot_orientation = NoOrientation
    /\ current_turn = "bot"
    /\ player_gets_extra_shot = FALSE
    /\ bot_gets_extra_shot = FALSE
    /\ turn_number = 0
    /\ pc = "resolver"
    /\ last_attacker = "none"
    /\ last_coord = NoCoord
    /\ last_result = "none"
    /\ calls = 0
    /\ candidate = <<>>
    /\ verdict = [valid |-> FALSE, reason |-> "not validated"]

\* apply_bot_move(coord)
ApplyBotMove ==
    /\ pc = "resolver"
    /\ calls < MaxCalls
    /\ \E coord \in ProbeCoords :
         LET r == apply_move(player_board, player_board_ships, player_ships,
                             coord)
         IN  /\ player_board' = r.board
             /\ last_coord' = coord
             /\ last_result' = r.result
    /\ last_attacker' = "bot"
    /\ calls' = calls + 1
    /\ UNCHANGED <<player_ships, bot_ships, bot_board, player_board_ships,
                   bot_board_ships, bot_mode, bot_hit_chain, bot_last_hit,
                   bot_orientation, current_turn, player_gets_extra_shot,
                   bot_gets_extra_shot, turn_number, pc, candidate, verdict>>

NextResolver == ApplyBotMove

SpecResolver == InitResolver /\ [][NextResolver]_vars

---------------------------------------------------------------------------
(* Claims about the move resolver *)

\* C1: when apply_move is called on the coordinate of the call before it,
\* the second call returns "invalid", whatever the first one returned, and
\* leaves every cell of the attack board as it was.
C1_SecondAttackInvalid ==
    [][(calls >= 1 /\ calls' = calls + 1 /\ last_coord' = last_coord)
         => (last_result' = "invalid" /\ player_board' = player_board)]_vars

\* C1 witness: the second of two calls hit a cell the first call had turned
\* into a Hit, and was answered "invalid".
C1_Witness ==
    /\ calls = 2
    /\ last_result = "invalid"
    /\ in_bounds(last_coord)
    /\ player_board[last_coord] = "H"

Adjacent8(a, b) ==
    a # b /\ Abs(a[1] - b[1]) <= 1 /\ Abs(a[2] - b[2]) <= 1

\* the board the last attack was resolved on, and the fleet it was aimed at
AttackedBoard == IF last_attacker = "player" THEN bot_board ELSE player_board
AttackedFleet == IF last_attacker = "player" THEN bot_ships ELSE player_ships

\* C2: after an attack that returned "sink", no in-bounds cell next to a
\* cell of the ship that holds the attacked coordinate (orthogonally or
\* diagonally) is still Empty on the attack board.
C2_SinkClosesPerimeter ==
    last_result = "sink" =>
        \A i \in DOMAIN AttackedFleet :
            last_coord \in Range(AttackedFleet[i]) =>
                \A c \in Cells :
                    (\E k \in DOMAIN AttackedFleet[i] :
                        Adjacent8(c, AttackedFleet[i][k]))
                    => AttackedBoard[c] \in {"H", "M"}

\* C2 witness: the size-3 ship of a fleet was sunk by the bot.
C2_Witness ==
    /\ last_result = "sink"
    /\ last_attacker = "bot"
    /\ \E i \in DOMAIN player_ships :
          last_coord \in Range(player_ships[i]) /\ Len(player_ships[i]) = 3

\* one attack on an in-bounds Empty cell, told exactly: b and b2 are the
\* attack board before and after, c the coordinate, res the result
Classified(b, b2, ship_board, ships, c, res) ==
    LET owners == {i \in DOMAIN ships : c \in Range(ships[i])}
    IN  /\ (res = "miss") <=> (ship_board[c] # "S")
        /\ (res = "miss") => (b2 = [b EXCEPT ![c] = "M"])
        /\ (res = "sink") <=>
              /\ ship_board[c] = "S"
              /\ \E i \in owners :
                    \A k \in DOMAIN ships[i] :
                        [b EXCEPT ![c] = "H"][ships[i][k]] = "H"
        /\ (res \notin {"miss", "sink"}) => (res = "hit")
        /\ (res \in {"hit", "sink"}) => (b2[c] = "H")
        /\ (\E i \in owners : Len(ships[i]) = 1) =>
              /\ res = "sink"
              /\ \A n \in Cells : Adjacent8(n, c) => b2[n] = "M"

\* C3: an attack on an in-bounds cell that is still Empty returns "miss"
\* (the cell becomes Miss) iff the ship board has no ship there, "sink" iff
\* the cell is a ship cell and every cell of the owning ship is Hit once it
\* is marked, and "hit" otherwise; a size-1 ship is sunk by the first attack
\* on its cell and all its in-bounds neighbours are Miss afterwards.
C3_AttackClassified ==
    [][/\ (current_turn = "player" /\ bot_board' # bot_board) =>
             /\ bot_board[last_coord'] = " "
             /\ Classified(bot_board, bot_board', bot_board_ships, bot_ships,
                           last_coord', last_result')
       /\ (current_turn = "bot" /\ player_board' # player_board) =>
             /\ player_board[last_coord'] = " "
             /\ Classified(player_board, player_board', player_board_ships,
                           player_ships, last_coord', last_result')]_vars

\* C3 witness: a size-1 ship was sunk and a neighbour of it is Miss.
C3_Witness ==
    /\ last_result = "sink"
    /\ \E i \in DOMAIN AttackedFleet :
          /\ AttackedFleet[i] = <<last_coord>>
          /\ \E n \in Cells : Adjacent8(n, last_coord) /\ AttackedBoard[n] = "M"

\* every coordinate of every ship of the fleet is Hit on the board
EveryShipCellHit(ships, board) ==
    \A i \in DOMAIN ships : \A k \in DOMAIN ships[i] : board[ships[i][k]] = "H"

\* C4: all_bot_ships_sunk() and all_player_ships_sunk() are true iff every
\* coordinate of every ship of that fleet is Hit on the attack board.
C4_WinDetectionExact ==
    /\ all_ships_sunk(bot_ships, bot_board)
          <=> EveryShipCellHit(bot_ships, bot_board)
    /\ all_ships_sunk(player_ships, player_board)
          <=> EveryShipCellHit(player_ships, player_board)

\* C4 witness: every ship of the player is sunk except for one cell, so the
\* first ships pass the test and a later one fails it; and a fleet is all Hit.
C4_Witness ==
    /\ all_ships_sunk(bot_ships, bot_board)
    /\ ~all_ships_sunk(player_ships, player_board)
    /\ AllHit(player_ships[1], player_board)

HasEmptyCell(board) == \E c \in Cells : board[c] = " "

\* the attack board of the side whose turn it is, and the fleet it aims at
BoardToAttack == IF current_turn = "player" THEN bot_board ELSE player_board
FleetToAttack == IF current_turn = "player" THEN bot_ships ELSE player_ships

EmptyCells(board) == {c \in Cells : board[c] = " "}

\* C14: while no side has won, the attack board of the side that is about
\* to attack has an Empty cell (a ship cell that is not Hit yet is still
\* Empty), and no attack of the game was answered "invalid".
C14_BoardNotExhausted ==
    /\ pc = "loop" =>
          /\ HasEmptyCell(BoardToAttack)
          /\ \E i \in DOMAIN FleetToAttack : \E k \in DOMAIN FleetToAttack[i] :
                BoardToAttack[FleetToAttack[i][k]] = " "
    /\ last_result # "invalid"

\* C14 witness: the game is not over and the bot is about to attack a
\* board on which two ships are sunk and at most two cells are Empty.
C14_Witness ==
    /\ pc = "loop"
    /\ current_turn = "bot"
    /\ Cardinality(EmptyCells(player_board)) <= 2
    /\ Cardinality({i \in DOMAIN player_ships :
                       AllHit(player_ships[i], player_board)}) = 2

---------------------------------------------------------------------------
(* Claims about the targeting AI *)

Modes == {RANDOM, HUNT, LOCKED}
Orientations == {NoOrientation, "horizontal", "vertical"}

\* the moves choose_bot_move can return from the AI fields and the board
BotMoves(mode, chain, last_hit, orientation, board) ==
    {o.move : o \in choose_bot_move(AIState(mode, chain, last_hit, orientation),
                                    board)}

\* the board with every Empty cell but e resolved as a Miss
OnlyOpen(board, e) ==
    [c \in Cells |-> IF board[c] = " " /\ c # e THEN "M" ELSE board[c]]

\* C5: whenever the bot's attack board has an Empty cell, choose_bot_move
\* returns an in-bounds coordinate whose cell is Empty: from the AI state
\* of every reachable game state, from that state with any other mode,
\* orientation or no last hit, and, while a chain is pursued, on the board
\* with a single Empty cell left, where the Locked and Hunt policies find
\* nothing and fall back to Random (Locked -> Hunt -> Random).
C5_BotMoveIsEmptyCell ==
    /\ HasEmptyCell(player_board) =>
          \A mode \in Modes : \A orientation \in Orientations :
          \A last_hit \in {bot_last_hit, NoCoord} :
              /\ BotMoves(mode, bot_hit_chain, last_hit, orientation,
                          player_board) # {}
              /\ \A move \in BotMoves(mode, bot_hit_chain, last_hit,
                                      orientation, player_board) :
                    in_bounds(move) /\ player_board[move] = " "
    /\ bot_hit_chain # <<>> =>
          \A e \in {c \in Cells : player_board[c] = " "} :
          \A mode \in {HUNT, LOCKED} :
              BotMoves(mode, bot_hit_chain, bot_last_hit, bot_orientation,
                       OnlyOpen(player_board, e)) = {e}

\* C5 witness: the bot, locked on a chain of two hits, chose its last move
\* by the Locked policy and missed; the board still has Empty cells.
C5_Witness ==
    /\ bot_mode = LOCKED
    /\ Len(bot_hit_chain) = 2
    /\ last_attacker = "bot"
    /\ last_result = "miss"
    /\ HasEmptyCell(player_board)

\* the AI fields of the state as a record
BotAI == AIState(bot_mode, bot_hit_chain, bot_last_hit, bot_orientation)

\* C15: right after a bot attack that returned "sink" the AI state is
\* {mode = Random, chain empty, last hit none, orientation none}; and
\* bot_take_turn leaves that state on a sink from the AI fields of every
\* reachable state taken with any of the three modes.
C15_SinkResetsAI ==
    /\ (last_attacker = "bot" /\ last_result = "sink") => BotAI = ResetAI
    /\ \A mode \in Modes : \A move \in Cells :
          UpdateAI([BotAI EXCEPT !.mode = mode], move, "sink")
              = AIState(RANDOM, <<>>, NoCoord, NoOrientation)

\* C15 witness: the bot sank the size-3 ship, which it had pursued in
\* Locked mode, and its AI state is reset.
C15_Witness ==
    /\ last_attacker = "bot"
    /\ last_result = "sink"
    /\ bot_mode = RANDOM
    /\ bot_hit_chain = <<>>
    /\ \E i \in DOMAIN player_ships :
          /\ last_coord \in Range(player_ships[i])
          /\ Len(player_ships[i]) >= 3

Adjacent4(a, b) ==
    \/ (a[1] = b[1] /\ Abs(a[2] - b[2]) = 1)
    \/ (a[2] = b[2] /\ Abs(a[1] - b[1]) = 1)

NextToChain(chain, c) == \E k \in DOMAIN chain : Adjacent4(chain[k], c)

AllShareRow(chain) == \A j, k \in DOMAIN chain : chain[j][1] = chain[k][1]
AllShareCol(chain) == \A j, k \in DOMAIN chain : chain[j][2] = chain[k][2]

\* C19: a bot attack that returns "hit" at c while the chain is empty, or
\* while c is no 4-neighbour of any coordinate of the chain, leaves the AI
\* state {chain = [c], last hit = c, orientation none, mode = Hunt}: from
\* the AI fields as choose_bot_move leaves them in every reachable state,
\* for the cell it chose and for every other cell of the board.
C19_FreshLeadOnNewHit ==
    \A o \in choose_bot_move(BotAI, player_board) : \A c \in Cells :
        (o.ai.chain = <<>> \/ ~NextToChain(o.ai.chain, c)) =>
            UpdateAI(o.ai, c, "hit") = AIState(HUNT, <<c>>, c, NoOrientation)

\* C19 witness: the bot, with no lead, hit a ship and now hunts from that
\* cell.
C19_Witness ==
    /\ last_attacker = "bot"
    /\ last_result = "hit"
    /\ bot_mode = HUNT
    /\ bot_hit_chain = <<last_coord>>
    /\ bot_last_hit = last_coord
    /\ bot_orientation = NoOrientation

\* the AI state the claim describes after a further hit c on the chain
AfterChainHit(chain, c) ==
    LET longer == Append(chain, c)
    IN  IF AllShareRow(longer) THEN AIState(LOCKED, longer, c, "horizontal")
        ELSE IF AllShareCol(longer) THEN AIState(LOCKED, longer, c, "vertical")
        ELSE AIState(HUNT, longer, c, NoOrientation)

\* C20: a bot attack that returns "hit" at a cell c that is a 4-neighbour
\* of a coordinate of the non-empty chain and not in it appends c to the
\* chain and makes it the last hit; the mode becomes Locked with
\* orientation horizontal (vertical) when the chain then shares a row (a
\* column), and otherwise the orientation is none and the mode stays Hunt:
\* for the cell choose_bot_move chose in every reachable state, and in
\* Hunt mode for every cell next to the chain.
C20_ChainHitLocksAxis ==
    \A o \in choose_bot_move(BotAI, player_board) :
        /\ (/\ o.ai.chain # <<>>
            /\ NextToChain(o.ai.chain, o.move)
            /\ o.move \notin Range(o.ai.chain)) =>
               UpdateAI(o.ai, o.move, "hit") = AfterChainHit(o.ai.chain, o.move)
        /\ \A c \in Cells :
              (/\ o.ai.chain # <<>>
               /\ NextToChain(o.ai.chain, c)
               /\ c \notin Range(o.ai.chain)) =>
                  UpdateAI([o.ai EXCEPT !.mode = HUNT], c, "hit")
                      = AfterChainHit(o.ai.chain, c)

\* C20 witness: the second hit on a ship, below the first, locked the bot
\* on the vertical axis.
C20_Witness ==
    /\ last_attacker = "bot"
    /\ last_result = "hit"
    /\ bot_mode = LOCKED
    /\ bot_orientation = "vertical"
    /\ Len(bot_hit_chain) = 2
    /\ bot_hit_chain[2] = last_coord
    /\ bot_last_hit = last_coord

---------------------------------------------------------------------------
(* infer_orientation applied to hit chains: every list of at most MaxChain *)
(* cells, with every value of the orientation field.                       *)

MaxChain == 3

Chains == UNION {[1 .. n -> Cells] : n \in 0 .. MaxChain}

InitInfer ==
    /\ bot_hit_chain \in Chains
    /\ bot_orientation \in {NoOrientation, "horizontal", "vertical"}
    /\ bot_mode = HUNT
    /\ bot_last_hit = NoCoord
    /\ player_ships = <<>>
    /\ bot_ships = <<>>
    /\ player_board = EmptyBoard
    /\ bot_board = EmptyBoard
    /\ player_board_ships = EmptyBoard
    /\ bot_board_ships = EmptyBoard
    /\ current_turn = "bot"
    /\ player_gets_extra_shot = FALSE
    /\ bot_gets_extra_shot = FALSE
    /\ turn_number = 0
    /\ pc = "infer_orientation"
    /\ last_attacker = "none"
    /\ last_coord = NoCoord
    /\ last_result = "none"
    /\ calls = 0
    /\ candidate = <<>>
    /\ verdict = [valid |-> FALSE, reason |-> "not validated"]

\* self.infer_orientation()
InferOrientation ==
    /\ pc = "infer_orientation"
    /\ bot_orientation' = infer_orientation(bot_hit_chain, bot_orientation)
    /\ pc' = "inferred"
    /\ UNCHANGED <<player_ships, bot_ships, player_board, bot_board,
                   player_board_ships, bot_board_ships, bot_mode,
                   bot_hit_chain, bot_last_hit, current_turn,
                   player_gets_extra_shot, bot_gets_extra_shot, turn_number,
                   last_attacker, last_coord, last_result, calls, candidate,
                   verdict>>

NextInfer == InferOrientation

SpecInfer == InitInfer /\ [][NextInfer]_vars

SameRow(chain) == \A a, b \in Range(chain) : a[1] = b[1]
SameCol(chain) == \A a, b \in Range(chain) : a[2] = b[2]

\* C16: infer_orientation on a chain of at least 2 coordinates sets the
\* orientation to horizontal when all share a row, to vertical when they
\* do not share a row but all share a column, to none otherwise; on a
\* shorter chain it leaves the orientation as it was.
C16_InferOrientation ==
    [][pc' = "inferred" =>
          IF Len(bot_hit_chain) >= 2
          THEN bot_orientation' =
                  (IF SameRow(bot_hit_chain) THEN "horizontal"
                   ELSE IF SameCol(bot_hit_chain) THEN "vertical"
                   ELSE NoOrientation)
          ELSE bot_orientation' = bot_orientation]_vars

\* C16 witness: a chain of three hits in one column, out of order, was
\* given the orientation vertical.
C16_Witness ==
    /\ pc = "inferred"
    /\ Len(bot_hit_chain) = 3
    /\ SameCol(bot_hit_chain) /\ ~SameRow(bot_hit_chain)
    /\ bot_hit_chain[1][1] > bot_hit_chain[2][1]
    /\ bot_orientation = "vertical"

---------------------------------------------------------------------------
(* Claims about the turn controller *)

ExtraShotFlag(side) ==
    IF side = "player" THEN player_gets_extra_shot ELSE bot_gets_extra_shot

\* C6: after an attack by side X that does not end the game, a Hit or a
\* Sink leaves the turn with X (current_turn unchanged, X's extra-shot flag
\* set) and a Miss passes it to the other side.
C6_ExtraShotRule ==
    [][(pc' = "loop" /\ last_attacker' = current_turn) =>
          /\ (last_result' \in {"hit", "sink"}) =>
                (current_turn' = current_turn /\ ExtraShotFlag(current_turn)')
          /\ (last_result' = "miss") => (current_turn' = Other(current_turn))]_vars

\* C6 witness: the bot sank a ship, the game goes on and the bot attacks
\* again.
C6_Witness ==
    /\ pc = "loop"
    /\ last_attacker = "bot"
    /\ last_result = "sink"
    /\ current_turn = "bot"
    /\ bot_gets_extra_shot

SomeoneWon ==
    \/ EveryShipCellHit(bot_ships, bot_board)
    \/ EveryShipCellHit(player_ships, player_board)

\* C7: once every ship cell of a fleet is Hit no further attack is made by
\* either side: no step of the loop starts in such a state, and the loop has
\* returned with the winner.
C7_GameEndsAtWin ==
    [][/\ ~SomeoneWon
       /\ SomeoneWon' =>
             pc' = (IF current_turn = "player" THEN "player_wins"
                    ELSE "bot_wins")]_vars

\* C7 witness: the bot won with an attack that granted it an extra shot,
\* in a turn sequence with several attacks.
C7_Witness ==
    /\ pc = "bot_wins"
    /\ bot_gets_extra_shot
    /\ EveryShipCellHit(player_ships, player_board)

\* C8: turn_number goes up by exactly 1 on every handoff of the turn and is
\* left alone by every attack that keeps the turn (a Hit or a Sink).
C8_TurnCounter ==
    [][/\ (current_turn' # current_turn) => (turn_number' = turn_number + 1)
       /\ (current_turn' = current_turn) => (turn_number' = turn_number)
       /\ (last_result' \in {"hit", "sink"}) => (turn_number' = turn_number)]_vars

\* C8 witness: two handoffs were counted and the last attack was an extra
\* shot of the player.
C8_Witness ==
    /\ turn_number = 2
    /\ current_turn = "player"
    /\ last_attacker = "player"
    /\ last_result = "hit"

\* C12: an attack that resolves to "invalid" does not advance the turn
\* state: current_turn stays with the attacking side and turn_number is
\* unchanged.
C12_InvalidKeepsTurn ==
    [][(last_result' = "invalid" /\ last_attacker' = current_turn) =>
          (current_turn' = current_turn /\ turn_number' = turn_number)]_vars

---------------------------------------------------------------------------
(* The fleet validator applied to candidate fleets: every fleet the        *)
(* generator proposes (ships of the right sizes placed anywhere, touching  *)
(* and overlapping included), and every accepted fleet with one cell       *)
(* moved to a neighbouring position, one cell or one ship removed, one     *)
(* cell added, or a ship's coordinates listed in reverse; and the sample   *)
(* fleets with one cell of each of two ships moved.                        *)

ShiftCell(f, i, k, d) ==
    [f EXCEPT ![i][k] = <<f[i][k][1] + d[1], f[i][k][2] + d[2]>>]

DropCell(f, i) == [f EXCEPT ![i] = SubSeq(f[i], 1, Len(f[i]) - 1)]

AddCell(f, i) ==
    [f EXCEPT ![i] = Append(f[i], <<f[i][Len(f[i])][1], f[i][Len(f[i])][2] + 1>>)]

DropShip(f, i) == SubSeq(f, 1, i - 1) \o SubSeq(f, i + 1, Len(f))

ReverseShip(f, i) ==
    [f EXCEPT ![i] = [k \in DOMAIN f[i] |-> f[i][Len(f[i]) + 1 - k]]]

\* the positions (i, k) of the cells of a fleet of ships of SHIP_SIZES
CellPositions ==
    {p \in (DOMAIN SHIP_SIZES) \X (1 .. BOARD_SIZE) : p[2] <= SHIP_SIZES[p[1]]}

\* every accepted fleet with one cell moved to a neighbouring position
OnceShiftedFleets ==
    {ShiftCell(f, p[1], p[2], Directions8[d]) :
        f \in generate_bot_ships, p \in CellPositions,
        d \in DOMAIN Directions8}

PerturbedFleets ==
    OnceShiftedFleets
    \cup ({DropCell(f, i) : f \in generate_bot_ships, i \in DOMAIN SHIP_SIZES}
          \cup ({AddCell(f, i) :
                    f \in generate_bot_ships, i \in DOMAIN SHIP_SIZES}
                \cup ({DropShip(f, i) :
                          f \in generate_bot_ships, i \in DOMAIN SHIP_SIZES}
                      \cup {ReverseShip(f, i) :
                               f \in generate_bot_ships,
                               i \in DOMAIN SHIP_SIZES})))

\* two defects in one fleet: a cell of ship i moved, then a cell of ship j
TwiceShiftedFleets ==
    {ShiftCell(ShiftCell(f, p[1], p[2], Directions8[d]),
               q[1], q[2], Directions8[e]) :
        f \in PlayerFleets, p \in CellPositions, q \in CellPositions,
        d \in DOMAIN Directions8, e \in DOMAIN Directions8}

CandidateFleets ==
    ProposedFleets \cup (PerturbedFleets \cup TwiceShiftedFleets)

NotValidated == [valid |-> FALSE, reason |-> "not validated"]

InitValidator ==
    /\ candidate \in CandidateFleets
    /\ verdict = NotValidated
    /\ player_ships = <<>>
    /\ bot_ships = <<>>
    /\ player_board = EmptyBoard
    /\ bot_board = EmptyBoard
    /\ player_board_ships = EmptyBoard
    /\ bot_board_ships = EmptyBoard
    /\ bot_mode = RANDOM
    /\ bot_hit_chain = <<>>
    /\ bot_last_hit = NoCoord
    /\ bot_orientation = NoOrientation
    /\ current_turn = "player"
    /\ player_gets_extra_shot = FALSE
    /\ bot_gets_extra_shot = FALSE
    /\ turn_number = 0
    /\ pc = "validator"
    /\ last_attacker = "none"
    /\ last_coord = NoCoord
    /\ last_result = "none"
    /\ calls = 0

\* valid, error_message = validate_ship_fleet(ships)
Validate ==
    /\ pc = "validator"
    /\ verdict = NotValidated
    /\ verdict' = validate_ship_fleet(candidate)
    /\ UNCHANGED <<player_ships, bot_ships, player_board, bot_board,
                   player_board_ships, bot_board_ships, bot_mode,
                   bot_hit_chain, bot_last_hit, bot_orientation, current_turn,
                   player_gets_extra_shot, bot_gets_extra_shot, turn_number,
                   pc, last_attacker, last_coord, last_result, calls,
                   candidate>>

NextValidator == Validate

SpecValidator == InitValidator /\ [][NextValidator]_vars

---------------------------------------------------------------------------
(* The setup of main(): the player's fleet is prompted for until it is     *)
(* accepted, the bot's fleet is generated until it is accepted, and the    *)
(* GameState is constructed from the two.  GameState(...) is also called   *)
(* directly, by a caller other than main(), on any pair of fleets.         *)

\* ship_input.py: the same test as ships_touch_or_overlap
are_ships_adjacent(ships) ==
    \E i \in DOMAIN ships : \E k \in DOMAIN ships[i] : \E j \in DOMAIN ships :
        /\ ships[i][k] \notin Range(ships[j])
        /\ get_adjacent_and_diagonal_cells(ships[i][k]) \cap Range(ships[j]) # {}

\* the sample fleets, and each with one cell of its first ship moved
ShiftedSamples ==
    SampleFleets
    \cup UNION { {ShiftCell(f, 1, k, Directions8[d]) :
                    k \in DOMAIN f[1], d \in DOMAIN Directions8} :
                 f \in SampleFleets }

\* prompt_ship_input returns only in-bounds ships of the size asked for
PromptedFleets ==
    {f \in ShiftedSamples :
        \A i \in DOMAIN f : /\ Len(f[i]) = SHIP_SIZES[i]
                            /\ \A k \in DOMAIN f[i] : in_bounds(f[i][k])}

InitSetup ==
    /\ candidate = <<>>
    /\ verdict = NotValidated
    /\ player_ships = <<>>
    /\ bot_ships = <<>>
    /\ player_board = EmptyBoard
    /\ bot_board = EmptyBoard
    /\ player_board_ships = EmptyBoard
    /\ bot_board_ships = EmptyBoard
    /\ bot_mode = RANDOM
    /\ bot_hit_chain = <<>>
    /\ bot_last_hit = NoCoord
    /\ bot_orientation = NoOrientation
    /\ current_turn = "player"
    /\ player_gets_extra_shot = FALSE
    /\ bot_gets_extra_shot = FALSE
    /\ turn_number = 0
    /\ pc = "get_player_ships"
    /\ last_attacker = "none"
    /\ last_coord = NoCoord
    /\ last_result = "none"
    /\ calls = 0

\* one pass of get_and_save_player_ships: the fleet is prompted for and
\* returned when both tests accept it; otherwise the function starts again
GetAndSavePlayerShips ==
    /\ pc = "get_player_ships"
    /\ \E f \in PromptedFleets :
         LET v == validate_ship_fleet(f)
         IN  /\ verdict' = v
             /\ IF v.valid /\ ~are_ships_adjacent(f)
                THEN candidate' = f /\ player_ships' = f
                     /\ pc' = "generate_bot_ships"
                ELSE candidate' = <<>> /\ UNCHANGED <<player_ships, pc>>
    /\ UNCHANGED <<bot_ships, player_board, bot_board, player_board_ships,
                   bot_board_ships, bot_mode, bot_hit_chain, bot_last_hit,
                   bot_orientation, current_turn, player_gets_extra_shot,
                   bot_gets_extra_shot, turn_number, last_attacker,
                   last_coord, last_result, calls>>

\* mutant: the proposal is returned without looking at the verdict
GenerateBotShips_no_validation ==
    /\ pc = "generate_bot_ships"
    /\ \E f \in ProposedFleets :
         /\ verdict' = validate_ship_fleet(f)
         /\ candidate' = f /\ bot_ships' = f /\ pc' = "from_fleets"
    /\ UNCHANGED <<player_ships, player_board, bot_board, player_board_ships,
                   bot_board_ships, bot_mode, bot_hit_chain, bot_last_hit,
                   bot_orientation, current_turn, player_gets_extra_shot,
                   bot_gets_extra_shot, turn_number, last_attacker,
                   last_coord, last_result, calls>>

\* one pass of the loop of generate_bot_ships: a ship per size is drawn,
\* the fleet is validated and returned if valid; otherwise the list is
\* cleared and the loop goes round
GenerateBotShips ==
    /\ pc = "generate_bot_ships"
    /\ \E f \in ProposedFleets :
         LET v == validate_ship_fleet(f)
         IN  /\ verdict' = v
             /\ IF v.valid
                THEN candidate' = f /\ bot_ships' = f /\ pc' = "from_fleets"
                ELSE candidate' = <<>> /\ UNCHANGED <<bot_ships, pc>>
    /\ UNCHANGED <<player_ships, player_board, bot_board, player_board_ships,
                   bot_board_ships, bot_mode, bot_hit_chain, bot_last_hit,
                   bot_orientation, current_turn, player_gets_extra_shot,
                   bot_gets_extra_shot, turn_number, last_attacker,
                   last_coord, last_result, calls>>

\* GameState.from_fleets(player_ships, bot_ships) in main()
FromFleets ==
    /\ pc = "from_fleets"
    /\ player_board_ships' = create_ship_board(player_ships)
    /\ bot_board_ships' = create_ship_board(bot_ships)
    /\ player_board' = EmptyBoard
    /\ bot_board' = EmptyBoard
    /\ bot_mode' = RANDOM
    /\ bot_hit_chain' = <<>>
    /\ bot_last_hit' = NoCoord
    /\ bot_orientation' = NoOrientation
    /\ current_turn' = "player"
    /\ player_gets_extra_shot' = FALSE
    /\ bot_gets_extra_shot' = FALSE
    /\ turn_number' = 0
    /\ pc' = "loop"
    /\ UNCHANGED <<player_ships, bot_ships, last_attacker, last_coord,
                   last_result, calls, candidate, verdict>>

\* GameState(player_ships, bot_ships) called on any two fleets
ConstructDirect ==
    /\ pc = "get_player_ships"
    /\ \E f \in ShiftedSamples : \E g \in SampleFleets :
         /\ player_ships' = f
         /\ bot_ships' = g
         /\ player_board_ships' = create_ship_board(f)
         /\ bot_board_ships' = create_ship_board(g)
    /\ player_board' = EmptyBoard
    /\ bot_board' = EmptyBoard
    /\ bot_mode' = RANDOM
    /\ bot_hit_chain' = <<>>
    /\ bot_last_hit' = NoCoord
    /\ bot_orientation' = NoOrientation
    /\ current_turn' = "player"
    /\ player_gets_extra_shot' = FALSE
    /\ bot_gets_extra_shot' = FALSE
    /\ turn_number' = 0
    /\ pc' = "constructed"
    /\ UNCHANGED <<last_attacker, last_coord, last_result, calls, candidate,
                   verdict>>

NextSetup ==
    GetAndSavePlayerShips \/ GenerateBotShips \/ FromFleets \/ ConstructDirect

SpecSetup == InitSetup /\ [][NextSetup]_vars

---------------------------------------------------------------------------
(* Claims about the setup *)

\* C13 as stated: no GameState is constructed from a fleet that
\* validate_ship_fleet rejects.
C13_ConstructorRejectsInvalid ==
    pc \in {"loop", "constructed"} =>
        /\ validate_ship_fleet(player_ships).valid
        /\ validate_ship_fleet(bot_ships).valid

\* C13 amended: the GameState main() constructs has its boards derived
\* from two fleets that validate_ship_fleet accepted (the constructor
\* itself accepts any fleet).
C13_MainConstructsFromValidated ==
    pc = "loop" =>
        /\ validate_ship_fleet(player_ships).valid
        /\ validate_ship_fleet(bot_ships).valid
        /\ player_board_ships = create_ship_board(player_ships)
        /\ bot_board_ships = create_ship_board(bot_ships)

\* C13 witness: main() constructed the GameState after the generator's
\* last proposal was accepted.
C13_Witness ==
    /\ pc = "loop"
    /\ verdict.valid
    /\ candidate = bot_ships
    /\ \E c \in Cells : bot_board_ships[c] = "S"

---------------------------------------------------------------------------
(* Claims about the fleet validator *)

\* the multiset of ship lengths is the multiset of SHIP_SIZES
SizesMatch(ships) ==
    /\ Len(ships) = Len(SHIP_SIZES)
    /\ \A n \in Range(SHIP_SIZES) :
          Cardinality({i \in DOMAIN ships : Len(ships[i]) = n})
              = Cardinality({j \in DOMAIN SHIP_SIZES : SHIP_SIZES[j] = n})

AllInBounds(ships) ==
    \A i \in DOMAIN ships : \A k \in DOMAIN ships[i] :
        /\ ships[i][k][1] \in 0 .. BOARD_SIZE - 1
        /\ ships[i][k][2] \in 0 .. BOARD_SIZE - 1

\* the cells of the ship are one straight run without gaps or repeats
StraightRun(ship) ==
    /\ Cardinality(Range(ship)) = Len(ship)
    /\ \E start \in Range(ship) : \E d \in {<<0, 1>>, <<1, 0>>} :
          Range(ship) = {<<start[1] + j * d[1], start[2] + j * d[2]>> :
                            j \in 0 .. Len(ship) - 1}

\* two different entries of the list neither share a cell nor touch
NoOverlapNoTouch(ships) ==
    \A i, j \in DOMAIN ships :
        i # j => \A a \in Range(ships[i]) : \A b \in Range(ships[j]) :
                    ~(Abs(a[1] - b[1]) <= 1 /\ Abs(a[2] - b[2]) <= 1)

FleetInvariant(ships) ==
    /\ SizesMatch(ships)
    /\ AllInBounds(ships)
    /\ \A i \in DOMAIN ships : StraightRun(ships[i])
    /\ NoOverlapNoTouch(ships)

\* C9: validate_ship_fleet returns Valid iff the multiset of ship lengths
\* is SHIP_SIZES, every coordinate is in bounds, every ship is a straight
\* contiguous run and no two distinct ships overlap or touch.
C9_ValidatorSound ==
    verdict # NotValidated => (verdict.valid <=> FleetInvariant(candidate))

\* C10: validate_ship_fleet rejects every fleet in which two different
\* entries of the list share a cell.
C10_OverlapRejected ==
    verdict.valid =>
        \A i, j \in DOMAIN candidate :
            i # j => Range(candidate[i]) \cap Range(candidate[j]) = {}

\* the cells of the ship share a row or share a column
Collinear(ship) ==
    \/ \A a, b \in Range(ship) : a[1] = b[1]
    \/ \A a, b \in Range(ship) : a[2] = b[2]

ShipInBounds(ship) == AllInBounds(<<ship>>)

\* the check of the validator (1..4) a reason string belongs to
CheckOf(reason) ==
    IF reason = "Fleet sizes do not match required configuration." THEN 1
    ELSE IF reason = "Ship coordinates out of bounds." THEN 2
    ELSE IF reason \in {"Ship is not a straight line.",
                        "Ship has gaps in its placement."} THEN 3
    ELSE IF reason = "Ships cannot touch or overlap." THEN 4
    ELSE 0

\* the first check that fails when the checks run fleet-wide, one after
\* the other: sizes, all coordinates in bounds, all ships straight runs,
\* no touching
FirstFailingCheck(ships) ==
    IF ~SizesMatch(ships) THEN 1
    ELSE IF ~AllInBounds(ships) THEN 2
    ELSE IF \E i \in DOMAIN ships : ~StraightRun(ships[i]) THEN 3
    ELSE 4

\* the reason when the bounds, line and gap checks run ship by ship, in
\* list order, between the size check and the touch check
ShipByShipReason(ships) ==
    IF ~SizesMatch(ships)
    THEN "Fleet sizes do not match required configuration."
    ELSE LET bad == {i \in DOMAIN ships :
                        ~(ShipInBounds(ships[i]) /\ StraightRun(ships[i]))}
         IN  IF bad = {} THEN "Ships cannot touch or overlap."
             ELSE LET ship == ships[Min(bad)]
                  IN  IF ~ShipInBounds(ship)
                      THEN "Ship coordinates out of bounds."
                      ELSE IF ~Collinear(ship)
                      THEN "Ship is not a straight line."
                      ELSE "Ship has gaps in its placement."

\* C11 as stated: a rejected fleet is rejected with the reason of the first
\* failing check in the order sizes, all coordinates of all ships in
\* bounds, every ship collinear and contiguous, no overlap or touching.
C11_ReasonFleetWideOrder ==
    (verdict # NotValidated /\ ~verdict.valid) =>
        CheckOf(verdict.reason) = FirstFailingCheck(candidate)

\* C11 amended: a rejected fleet is rejected with the reason of the first
\* failing check in the order: sizes; then, ship by ship in list order, in
\* bounds, collinear, contiguous; then no overlap or touching.
C11_ReasonShipByShipOrder ==
    (verdict # NotValidated /\ ~verdict.valid) =>
        verdict.reason = ShipByShipReason(candidate)

\* C11 witness: a fleet whose first ship is in bounds but not straight and
\* whose second ship is out of bounds was rejected.
C11_Witness ==
    /\ verdict # NotValidated
    /\ ~verdict.valid
    /\ SizesMatch(candidate)
    /\ ShipInBounds(candidate[1]) /\ ~Collinear(candidate[1])
    /\ ~ShipInBounds(candidate[2])

\* C18: every fleet generate_bot_ships returned was accepted by
\* validate_ship_fleet and has the ship sizes of SHIP_SIZES, all cells in
\* bounds, every ship a straight contiguous run, and no two ships
\* overlapping or touching.
C18_GeneratedFleetInvariant ==
    pc \in {"from_fleets", "loop"} =>
        /\ validate_ship_fleet(bot_ships).valid
        /\ FleetInvariant(bot_ships)

---------------------------------------------------------------------------
(* bot_take_turn called once on drawn inputs: the attack board and the AI  *)
(* fields are drawn from bounded sets, beyond the states the game loop     *)
(* reaches, so that every branch of the three policies is taken.           *)

\* the cells of the drawn boards that can be resolved: row 1, column 1 and
\* the cells above and below (1, 2)
ProbeWindow ==
    {c \in Cells : c[1] = 1 \/ c[2] = 1} \cup {<<0, 2>>, <<2, 2>>}

\* hit chains with and without gaps, along a row, along a column, and bent
DrawnChains ==
    { << <<1, 1>> >>,
      << <<1, 1>>, <<1, 2>> >>,
      << <<1, 2>>, <<1, 1>> >>,
      << <<1, 0>>, <<1, 2>> >>,
      << <<1, 3>>, <<1, 1>> >>,
      << <<1, 0>>, <<1, 1>>, <<1, 3>> >>,
      << <<1, 2>>, <<1, 3>> >>,
      << <<1, 1>>, <<2, 1>> >>,
      << <<3, 1>>, <<2, 1>> >>,
      << <<0, 1>>, <<2, 1>> >>,
      << <<3, 1>>, <<1, 1>>, <<0, 1>> >>,
      << <<1, 1>>, <<1, 2>>, <<2, 1>> >> }

\* the AI fields drawn: Random with nothing tracked and Hunt with nothing
\* tracked (both on the untouched board), and Hunt or Locked on a chain
\* with its first or last entry as the last hit
DrawnAIs ==
    {ResetAI, AIState(HUNT, <<>>, NoCoord, NoOrientation)}
    \cup {AIState(m, ch, l, o) :
            m \in {HUNT, LOCKED}, ch \in DrawnChains,
            l \in Cells, o \in Orientations}

\* the attack board on which the cells of resolved and of the chain are
\* resolved: "H" on the chain and on ship cells, "M" elsewhere
DrawnBoard(ship_board, chain, resolved) ==
    [c \in Cells |->
        IF c \in Range(chain) THEN "H"
        ELSE IF c \in resolved
        THEN IF ship_board[c] = "S" THEN "H" ELSE "M"
        ELSE " "]

\* the fleets whose size-3 ship lies in the probe window
DrawnFleets == {f \in PlayerFleets : <<1, 1>> \in Range(f[1])}

InitBotTurn ==
    /\ player_ships \in DrawnFleets
    /\ player_board_ships = create_ship_board(player_ships)
    /\ \E ai \in DrawnAIs :
         /\ ai.chain # <<>> => ai.last_hit \in {ai.chain[1],
                                               ai.chain[Len(ai.chain)]}
         /\ ai.chain = <<>> => ai.last_hit = NoCoord
         /\ bot_mode = ai.mode
         /\ bot_hit_chain = ai.chain
         /\ bot_last_hit = ai.last_hit
         /\ bot_orientation = ai.orientation
    /\ \E resolved \in SUBSET ProbeWindow :
         /\ bot_hit_chain = <<>> => resolved = {}
         /\ player_board = DrawnBoard(player_board_ships, bot_hit_chain,
                                      resolved)
    /\ bot_ships = <<>>
    /\ bot_board = EmptyBoard
    /\ bot_board_ships = EmptyBoard
    /\ current_turn = "bot"
    /\ player_gets_extra_shot = FALSE
    /\ bot_gets_extra_shot = FALSE
    /\ turn_number = 0
    /\ pc = "bot_take_turn"
    /\ last_attacker = "none"
    /\ last_coord = NoCoord
    /\ last_result = "none"
    /\ calls = 0
    /\ candidate = <<>>
    /\ verdict = NotValidated

\* bot_take_turn(): the move is chosen, applied and the AI fields updated
BotTakeTurn ==
    /\ pc = "bot_take_turn"
    /\ \E o \in choose_bot_move(BotAI, player_board) :
         LET r == apply_move(player_board, player_board_ships, player_ships,
                             o.move)
             ai == UpdateAI(o.ai, o.move, r.result)
         IN  /\ player_board' = r.board
             /\ bot_gets_extra_shot' = GetsExtraShot(r.result)
             /\ bot_mode' = ai.mode
             /\ bot_hit_chain' = ai.chain
             /\ bot_last_hit' = ai.last_hit
             /\ bot_orientation' = ai.orientation
             /\ last_attacker' = "bot"
             /\ last_coord' = o.move
             /\ last_result' = r.result
    /\ pc' = "returned"
    /\ UNCHANGED <<player_ships, bot_ships, bot_board, player_board_ships,
                   bot_board_ships, current_turn, player_gets_extra_shot,
                   turn_number, calls, candidate, verdict>>

NextBotTurn == BotTakeTurn

SpecBotTurn == InitBotTurn /\ [][NextBotTurn]_vars

\* the AI fields bot_take_turn leaves
BotAINext == AIState(bot_mode', bot_hit_chain', bot_last_hit', bot_orientation')

\* what the handling of a Miss may do to the AI fields a it finds: b holds
\* the same chain and last hit, and the mode either stays or goes from Hunt
\* to Locked on a chain of two or more that yields an orientation
MissKeepsLead(a, b) ==
    /\ b.chain = a.chain
    /\ b.last_hit = a.last_hit
    /\ a.mode = RANDOM => b.mode = RANDOM
    /\ b.mode # a.mode =>
         /\ a.mode = HUNT
         /\ b.mode = LOCKED
         /\ Len(a.chain) >= 2
         /\ \/ b.orientation = "horizontal" /\ AllShareRow(a.chain)
            \/ b.orientation = "vertical" /\ AllShareCol(a.chain)

\* C21: a bot attack that results in "miss" does not by itself reset the
\* lead. With the AI fields as choose_bot_move left them, the handling of
\* the result keeps the hit chain and the last hit, changes the mode only
\* from Hunt to Locked, and only when the chain of two or more entries
\* yields an orientation, and leaves the mode Random when it was Random.
C21_MissKeepsLead ==
    [][(pc = "bot_take_turn" /\ last_result' = "miss") =>
          \E o \in choose_bot_move(BotAI, player_board) :
             /\ o.move = last_coord'
             /\ MissKeepsLead(o.ai, BotAINext)]_vars

\* a miss next to a chain of two hits in a row, tracked in Hunt mode, after
\* which the mode is Locked: the attacked cell is off the row of the chain
C21_Witness ==
    /\ pc = "returned"
    /\ last_result = "miss"
    /\ bot_mode = LOCKED
    /\ bot_orientation = "horizontal"
    /\ Len(bot_hit_chain) >= 2
    /\ AllShareRow(bot_hit_chain)
    /\ last_coord[1] # bot_hit_chain[1][1]

\* the Empty cells of the line within 4 cells before the first hit of the
\* chain and within 4 cells after the last, and the Empty cells between
\* hits; axis 1 runs along a row (the columns vary), axis 2 along a column
Along(axis) == IF axis = 1 THEN 2 ELSE 1

LineLow(chain, axis) == Min({chain[k][Along(axis)] : k \in DOMAIN chain})
LineHigh(chain, axis) == Max({chain[k][Along(axis)] : k \in DOMAIN chain})

OnLine(chain, axis, c) == c[axis] = chain[1][axis]

OpenBefore(board, chain, axis) ==
    {c \in Cells : /\ OnLine(chain, axis, c)
                   /\ c[Along(axis)] < LineLow(chain, axis)
                   /\ c[Along(axis)] >= LineLow(chain, axis) - 4
                   /\ board[c] = " "}

OpenAfter(board, chain, axis) ==
    {c \in Cells : /\ OnLine(chain, axis, c)
                   /\ c[Along(axis)] > LineHigh(chain, axis)
                   /\ c[Along(axis)] <= LineHigh(chain, axis) + 4
                   /\ board[c] = " "}

OpenBetween(board, chain, axis) ==
    {c \in Cells : /\ OnLine(chain, axis, c)
                   /\ c[Along(axis)] > LineLow(chain, axis)
                   /\ c[Along(axis)] < LineHigh(chain, axis)
                   /\ c \notin Range(chain)
                   /\ board[c] = " "}

Nearest(S, axis, to) ==
    CHOOSE c \in S : \A d \in S : Abs(c[Along(axis)] - to) <= Abs(d[Along(axis)] - to)

\* the cell the Locked policy is to return on the line, NoCoord if none
LockedTarget(board, chain, axis) ==
    IF OpenBefore(board, chain, axis) # {}
    THEN Nearest(OpenBefore(board, chain, axis), axis, LineLow(chain, axis))
    ELSE IF OpenAfter(board, chain, axis) # {}
    THEN Nearest(OpenAfter(board, chain, axis), axis, LineHigh(chain, axis))
    ELSE IF OpenBetween(board, chain, axis) # {}
    THEN Nearest(OpenBetween(board, chain, axis), axis, LineLow(chain, axis))
    ELSE NoCoord

\* the move and the AI fields of the call are those of the Hunt policy
\* entered with the fields ai
DelegatedToHunt(ai) ==
    \E o \in choose_hunt_move(ai, player_board) :
       /\ last_coord' = o.move
       /\ BotAINext = UpdateAI(o.ai, o.move, last_result')

LockedOnLine(axis) ==
    /\ pc = "bot_take_turn"
    /\ bot_mode = LOCKED
    /\ Len(bot_hit_chain) >= 2
    /\ IF axis = 1
       THEN bot_orientation = "horizontal" /\ AllShareRow(bot_hit_chain)
       ELSE bot_orientation = "vertical" /\ AllShareCol(bot_hit_chain)

\* C22: in Locked mode with Horizontal orientation and a chain of two or
\* more hits in row r, leftmost column L, rightmost column R, the move is
\* the first Empty cell among (r,L-1) .. (r,L-4), resolved cells skipped and
\* the board edge ending the search; if there is none, the first Empty cell
\* among (r,R+1) .. (r,R+4); if none, the first Empty cell between
\* consecutive sorted hits; if none, the mode is set to Hunt and the Hunt
\* policy gives the move. With Vertical orientation the same holds along
\* the column, above first, then below. In the first three cases the
\* chooser leaves the AI fields as they were.
C22_LockedProbeOrder ==
    [][\A axis \in {1, 2} :
          LockedOnLine(axis) =>
             LET e == LockedTarget(player_board, bot_hit_chain, axis)
             IN  IF e # NoCoord
                 THEN /\ last_coord' = e
                      /\ BotAINext = UpdateAI(BotAI, e, last_result')
                 ELSE DelegatedToHunt([BotAI EXCEPT !.mode = HUNT])]_vars

\* a Locked bot missed on the gap cell between two hits of its row
C22_Witness ==
    /\ pc = "returned"
    /\ last_result = "miss"
    /\ bot_mode = LOCKED
    /\ bot_orientation = "horizontal"
    /\ AllShareRow(bot_hit_chain)
    /\ last_coord[1] = bot_hit_chain[1][1]
    /\ last_coord[2] > LineLow(bot_hit_chain, 1)
    /\ last_coord[2] < LineHigh(bot_hit_chain, 1)

\* the neighbour of hit the Hunt policy is to return: the first Empty cell
\* of the board among up, down, left, right, or among left, right, up, down
\* when the orientation is Horizontal; NoCoord if there is none
HuntTarget(board, hit, orientation) ==
    LET up == <<hit[1] - 1, hit[2]>>
        down == <<hit[1] + 1, hit[2]>>
        left == <<hit[1], hit[2] - 1>>
        right == <<hit[1], hit[2] + 1>>
        open(c) == c \in Cells /\ board[c] = " "
    IN  IF orientation = "horizontal"
        THEN IF open(left) THEN left ELSE IF open(right) THEN right
             ELSE IF open(up) THEN up ELSE IF open(down) THEN down
             ELSE NoCoord
        ELSE IF open(up) THEN up ELSE IF open(down) THEN down
             ELSE IF open(left) THEN left ELSE IF open(right) THEN right
             ELSE NoCoord

\* the positions of the chain, other than the last hit, that have an Empty
\* neighbour
OtherLeads(board, ai) ==
    {k \in DOMAIN ai.chain :
        /\ ai.chain[k] # ai.last_hit
        /\ HuntTarget(board, ai.chain[k], ai.orientation) # NoCoord}

\* C23: in Hunt mode the move is the first in-bounds Empty cell among the 4
\* neighbours of the last hit, in the order up, down, left, right (left,
\* right, up, down when the orientation is Horizontal), the AI fields left
\* as they were; if there is none, the other coordinates of the chain are
\* probed in chain order with the same offsets and the last hit becomes the
\* coordinate that gave the move; if there is still none, the AI fields are
\* reset to {Random, empty chain, none, none} and the move is any Empty
\* cell.
C23_HuntProbeOrder ==
    [][(pc = "bot_take_turn" /\ bot_mode = HUNT /\ bot_last_hit # NoCoord) =>
          LET e == HuntTarget(player_board, bot_last_hit, bot_orientation)
              others == OtherLeads(player_board, BotAI)
              lead == bot_hit_chain[Min(others)]
          IN  IF e # NoCoord
              THEN /\ last_coord' = e
                   /\ BotAINext = UpdateAI(BotAI, e, last_result')
              ELSE IF others # {}
              THEN /\ last_coord' = HuntTarget(player_board, lead,
                                               bot_orientation)
                   /\ BotAINext = UpdateAI([BotAI EXCEPT !.last_hit = lead],
                                           last_coord', last_result')
              ELSE /\ player_board[last_coord'] = " "
                   /\ BotAINext = UpdateAI(ResetAI, last_coord',
                                           last_result')]_vars

\* the dead end: a hit whose neighbours are all resolved, the AI fields
\* reset and the random move a miss
C23_Witness ==
    /\ pc = "returned"
    /\ last_result = "miss"
    /\ BotAI = ResetAI
    /\ \E c \in Cells :
         /\ player_board[c] = "H"
         /\ \A d \in Cells : Adjacent4(c, d) => player_board[d] # " "
         /\ ~Adjacent4(c, last_coord)

---------------------------------------------------------------------------
(* The AI fields in the games of the loop, played on validated fleets *)

---------------------------------------------------------------------------
(* bot_take_turn with the answer of choose_bot_move given: the bot is made *)
(* to attack chosen cells, as a scenario of the AI rules prescribes them, *)
(* and is then left to choose by itself.                                   *)

\* the number of attacks whose cell is given
MaxGiven == 2

InitGivenMoves ==
    /\ player_ships \in PlayerFleets
    /\ player_board_ships = create_ship_board(player_ships)
    /\ player_board = EmptyBoard
    /\ bot_mode = RANDOM
    /\ bot_hit_chain = <<>>
    /\ bot_last_hit = NoCoord
    /\ bot_orientation = NoOrientation
    /\ bot_ships = <<>>
    /\ bot_board = EmptyBoard
    /\ bot_board_ships = EmptyBoard
    /\ current_turn = "bot"
    /\ player_gets_extra_shot = FALSE
    /\ bot_gets_extra_shot = FALSE
    /\ turn_number = 0
    /\ pc = "bot_take_turn"
    /\ last_attacker = "none"
    /\ last_coord = NoCoord
    /\ last_result = "none"
    /\ calls = 0
    /\ candidate = <<>>
    /\ verdict = NotValidated

\* bot_take_turn() where choose_bot_move answers with a given Empty cell
BotTakesGivenMove ==
    /\ pc = "bot_take_turn"
    /\ calls < MaxGiven
    /\ \E move \in {c \in Cells : player_board[c] = " "} :
         LET r == apply_move(player_board, player_board_ships, player_ships,
                             move)
             ai == UpdateAI(BotAI, move, r.result)
         IN  /\ player_board' = r.board
             /\ bot_gets_extra_shot' = GetsExtraShot(r.result)
             /\ bot_mode' = ai.mode
             /\ bot_hit_chain' = ai.chain
             /\ bot_last_hit' = ai.last_hit
             /\ bot_orientation' = ai.orientation
             /\ last_attacker' = "bot"
             /\ last_coord' = move
             /\ last_result' = r.result
    /\ calls' = calls + 1
    /\ UNCHANGED <<player_ships, bot_ships, bot_board, player_board_ships,
                   bot_board_ships, current_turn, player_gets_extra_shot,
                   turn_number, pc, candidate, verdict>>

NextGivenMoves == BotTakesGivenMove \/ BotTakeTurn

SpecGivenMoves == InitGivenMoves /\ [][NextGivenMoves]_vars

\* the size-3 ship lies along a row and the bot scored a hit on its left
\* end and then on its right end, the cell between them and every other
\* cell still Empty
EndsHit(left, mid, right) ==
    /\ pc = "bot_take_turn"
    /\ player_ships[1] = <<left, mid, right>>
    /\ left[1] = right[1]
    /\ calls = 2
    /\ last_coord = right
    /\ \A c \in Cells :
          player_board[c] = IF c \in {left, right} THEN "H" ELSE " "

\* the cells just outside the two ends that are on the board, left first
EndCells(left, right) ==
    SelectSeq(<< <<left[1], left[2] - 1>>, <<right[1], right[2] + 1>> >>,
              in_bounds)

\* the cells of the row on the board within 4 columns of the ends: those
\* left of the left end, nearest first, then those right of the right end
OuterCells(left, right) ==
    SelectSeq([o \in 1 .. 4 |-> <<left[1], left[2] - o>>]
              \o [o \in 1 .. 4 |-> <<right[1], right[2] + o>>], in_bounds)

\* the first n cells the AI fields ai are made to attack on the board when
\* every attack misses
RECURSIVE ProbesWhileMissing(_, _, _)
ProbesWhileMissing(ai, board, n) ==
    IF n = 0 THEN <<>>
    ELSE LET o == CHOOSE x \in choose_bot_move(ai, board) : TRUE
         IN  <<o.move>> \o ProbesWhileMissing(UpdateAI(o.ai, o.move, "miss"),
                                              [board EXCEPT ![o.move] = "M"],
                                              n - 1)

---------------------------------------------------------------------------
(* What a turn may change *)

\* the change an attack at coord with the result may make to the attack
\* board of the fleet ships: none when the attack is not accepted, the
\* attacked cell alone on a hit or a miss, and on a sink the attacked cell
\* and cells that were Empty, are now "M" and lie next to the ship sunk
AttackChange(board, after, ships, coord, result) ==
    /\ result = "invalid" => after = board
    /\ result \in {"hit", "miss", "sink"} =>
          /\ board[coord] = " "
          /\ after[coord] = IF result = "miss" THEN "M" ELSE "H"
    /\ result \in {"hit", "miss"} =>
          \A c \in Cells \ {coord} : after[c] = board[c]
    /\ result = "sink" =>
          \A c \in Cells \ {coord} :
             after[c] # board[c] =>
                /\ board[c] = " "
                /\ after[c] = "M"
                /\ \E i \in DOMAIN ships :
                      /\ coord \in Range(ships[i])
                      /\ \E k \in DOMAIN ships[i] : Adjacent8(ships[i][k], c)

\* C26: no step changes a fleet or a ship-location board. A turn of the
\* player changes at most bot_board and player_gets_extra_shot: player_board,
\* the AI fields and the bot's flag stay. A turn of the bot changes at most
\* player_board, bot_gets_extra_shot and the AI fields: bot_board and the
\* player's flag stay. current_turn and turn_number change only as
\* next_turn of the loop sets them from the two flags. An attack board
\* changes only as apply_move changes it: nothing on an attack that is not
\* accepted, exactly the attacked cell on a hit or a miss, and on a sink
\* the attacked cell plus cells next to the sunk ship that were Empty.
C26_TurnFrame ==
    [][/\ UNCHANGED <<player_ships, bot_ships, player_board_ships,
                      bot_board_ships>>
       /\ current_turn = "player" =>
             /\ UNCHANGED <<player_board, bot_mode, bot_hit_chain,
                            bot_last_hit, bot_orientation,
                            bot_gets_extra_shot>>
             /\ AttackChange(bot_board, bot_board', bot_ships, last_coord',
                             last_result')
       /\ current_turn = "bot" =>
             /\ UNCHANGED <<bot_board, player_gets_extra_shot>>
             /\ AttackChange(player_board, player_board', player_ships,
                             last_coord', last_result')
       /\ \/ UNCHANGED <<current_turn, turn_number>>
          \/ [turn_number |-> turn_number', current_turn |-> current_turn']
                = next_turn(current_turn, turn_number,
                            player_gets_extra_shot', bot_gets_extra_shot')]_vars

\* the bot sank a ship and cells around it were closed, while the player's
\* earlier attacks stand on bot_board
C26_Witness ==
    /\ last_attacker = "bot"
    /\ last_result = "sink"
    /\ \E c \in Cells : c # last_coord /\ Adjacent8(last_coord, c)
                                       /\ player_board[c] = "M"
    /\ \E c \in Cells : bot_board[c] = "H"
    /\ \E c \in Cells : bot_board[c] = "M"

---------------------------------------------------------------------------
(* The attack boards against the ship-location boards *)

\* the attack board shows "H" only on cells of the ship board that hold a
\* ship and "M" only on cells that hold none
BoardAgrees(board, ship_board) ==
    \A c \in Cells : /\ board[c] = "H" => ship_board[c] = "S"
                     /\ board[c] = "M" => ship_board[c] # "S"

\* C27: in every reachable state of a game on validated fleets each attack
\* board agrees with the ship-location board of the fleet attacked: a cell
\* is "H" only where a ship is and "M" only where none is; so the cells
\* marked around a sunk ship are never cells of another ship.
C27_BoardsAgreeWithShips ==
    /\ BoardAgrees(player_board, player_board_ships)
    /\ BoardAgrees(bot_board, bot_board_ships)

\* a ship was sunk and a cell marked around it touches a cell of another
\* ship, which is still Empty
C27_Witness ==
    /\ last_result = "sink"
    /\ \E c, d \in Cells :
         /\ Adjacent8(c, last_coord)
         /\ AttackedBoard[c] = "M"
         /\ Adjacent8(c, d)
         /\ \E i \in DOMAIN AttackedFleet : d \in Range(AttackedFleet[i])
         /\ AttackedBoard[d] = " "

FellBack(before, after) ==
    \/ before.mode = LOCKED /\ after.mode # LOCKED
    \/ before.mode = HUNT /\ after.mode = RANDOM

---------------------------------------------------------------------------
(* The extra-shot flags at the handoffs *)

\* the extra-shot flag of the side whose turn it is not
IdleFlag ==
    IF current_turn = "player" THEN bot_gets_extra_shot
    ELSE player_gets_extra_shot

\* the step ends with the call of next_turn: nobody won and the side that
\* attacked got no extra shot
CallsNextTurn ==
    /\ pc' = "loop"
    /\ ~(IF current_turn = "player" THEN player_gets_extra_shot'
         ELSE bot_gets_extra_shot')

\* C31: in every reachable state of the game loop the extra-shot flag of
\* the side that is not attacking is False; so at every call of next_turn
\* both flags are False and the call hands current_turn to the other side,
\* counting the turn.
C31_IdleFlagFalse ==
    /\ [](~IdleFlag)
    /\ [][CallsNextTurn =>
             /\ ~player_gets_extra_shot'
             /\ ~bot_gets_extra_shot'
             /\ current_turn' = Other(current_turn)
             /\ turn_number' = turn_number + 1]_vars

\* the bot missed after the player had scored: the turn is back with the
\* player and both flags are down
C31_Witness ==
    /\ pc = "loop"
    /\ current_turn = "player"
    /\ last_attacker = "bot"
    /\ last_result = "miss"
    /\ ~player_gets_extra_shot
    /\ ~bot_gets_extra_shot
    /\ \E c \in Cells : bot_board[c] = "H"
    /\ \E c \in Cells : player_board[c] = "H"

---------------------------------------------------------------------------
(* The games played to the end: the loop of main with no limit on the      *)
(* number of turns, every attack counted.                                  *)

\* the number of Empty cells each side picks from: the human answers with
\* one of the first PlayRange Empty cells of bot_board in row-major order,
\* and random.choice of the Random policy is taken to draw one of the first
\* PlayRange Empty cells of player_board
PlayRange == 2

FirstEmptyCells(board) ==
    {c \in Cells :
        /\ board[c] = " "
        /\ Cardinality({d \in Cells : board[d] = " " /\ CoordLess(d, c)})
              < PlayRange}

\* player_take_turn(ask_player_for_move()) and the rest of the loop body
PlayerPlays ==
    /\ pc = "loop"
    /\ current_turn = "player"
    /\ \E coord \in ask_player_for_move(bot_board) \cap FirstEmptyCells(bot_board) :
         LET r == apply_move(bot_board, bot_board_ships, bot_ships, coord)
             flag == GetsExtraShot(r.result)
             step == LoopStep("player", all_ships_sunk(bot_ships, r.board),
                              flag, bot_gets_extra_shot)
         IN  /\ bot_board' = r.board
             /\ player_gets_extra_shot' = flag
             /\ pc' = step.pc
             /\ current_turn' = step.current_turn
             /\ turn_number' = step.turn_number
             /\ last_attacker' = "player"
             /\ last_coord' = coord
             /\ last_result' = r.result
    /\ calls' = calls + 1
    /\ UNCHANGED <<player_ships, bot_ships, player_board, player_board_ships,
                   bot_board_ships, bot_mode, bot_hit_chain, bot_last_hit,
                   bot_orientation, bot_gets_extra_shot, candidate, verdict>>

\* bot_take_turn() and the rest of the loop body
BotPlays ==
    /\ pc = "loop"
    /\ current_turn = "bot"
    /\ \E o \in choose_bot_move(BotAI, player_board) :
         /\ o.ai.mode = RANDOM => o.move \in FirstEmptyCells(player_board)
         /\ LET r == apply_move(player_board, player_board_ships,
                                player_ships, o.move)
                flag == GetsExtraShot(r.result)
                ai == UpdateAI(o.ai, o.move, r.result)
                step == LoopStep("bot", all_ships_sunk(player_ships, r.board),
                                 player_gets_extra_shot, flag)
            IN  /\ player_board' = r.board
                /\ bot_gets_extra_shot' = flag
                /\ bot_mode' = ai.mode
                /\ bot_hit_chain' = ai.chain
                /\ bot_last_hit' = ai.last_hit
                /\ bot_orientation' = ai.orientation
                /\ pc' = step.pc
                /\ current_turn' = step.current_turn
                /\ turn_number' = step.turn_number
                /\ last_attacker' = "bot"
                /\ last_coord' = o.move
                /\ last_result' = r.result
    /\ calls' = calls + 1
    /\ UNCHANGED <<player_ships, bot_ships, bot_board, player_board_ships,
                   bot_board_ships, player_gets_extra_shot, candidate,
                   verdict>>

NextToTheEnd == PlayerPlays \/ BotPlays

\* the games followed to the end are those in which both sides placed the
\* same fleet
InitToTheEnd == Init /\ player_ships = bot_ships

\* main does not stop between two attacks
SpecToTheEnd ==
    InitToTheEnd /\ [][NextToTheEnd]_vars /\ WF_vars(NextToTheEnd)


GameOver == pc \in {"player_wins", "bot_wins"}

\* the attack of the step found the cell it attacked Empty and left fewer
\* Empty cells on the board it attacked
ResolvesACell ==
    IF last_attacker' = "player"
    THEN /\ bot_board[last_coord'] = " "
         /\ Cardinality(EmptyCells(bot_board'))
               < Cardinality(EmptyCells(bot_board))
    ELSE /\ player_board[last_coord'] = " "
         /\ Cardinality(EmptyCells(player_board'))
               < Cardinality(EmptyCells(player_board))

\* C32: every game started from two validated fleets, the player always
\* answering with an in-bounds cell not attacked yet, ends with exactly one
\* side winning: every attack is accepted and turns at least one Empty
\* cell non-Empty, the loop returns after at most 2 * N * N attacks, and the
\* two fleets are never both sunk: the winner's fleet has a cell that is
\* not hit.
C32_GameEndsWithOneWinner ==
    /\ <>GameOver
    /\ [][/\ ResolvesACell
          /\ last_result' # "invalid"
          /\ calls' <= 2 * BOARD_SIZE * BOARD_SIZE
          /\ ~(all_ships_sunk(player_ships', player_board')
               /\ all_ships_sunk(bot_ships', bot_board'))
          /\ pc' = "player_wins" => all_ships_sunk(bot_ships', bot_board')
          /\ pc' = "bot_wins" =>
                all_ships_sunk(player_ships', player_board')]_vars

\* the bot won a game in which the player had sunk a ship
C32_Witness ==
    /\ pc = "bot_wins"
    /\ all_ships_sunk(player_ships, player_board)
    /\ \E i \in DOMAIN bot_ships : AllHit(bot_ships[i], bot_board)
    /\ calls > Len(SHIP_SIZES)

===========================================================================
